---- MODULE Spec2Model ----
(***************************************************************************)
(* Content Relevance Engine of BackendSecondBrain: the like toggle that    *)
(* maintains a user's preference counters (postController.js likePost),    *)
(* the four-provider analysis aggregator (aiController.js                  *)
(* performAIAnalysisOnPost) and the feed scorer (postController.js         *)
(* getFeedPosts / scorePost).                                              *)
(*                                                                         *)
(* Conventions.  A JavaScript Map is a function whose DOMAIN is its key    *)
(* set.  Provider scores are integers in thousandths (0.5 is 500).  The    *)
(* clock counts days, and a relevance score is kept multiplied by          *)
(* RecencyWindow (the days in oneDayMs * 5), so the recency term           *)
(* 5 - age / (5 days) stays an integer.                                    *)
(***************************************************************************)
EXTENDS Integers, Sequences, FiniteSets, TLC

VARIABLES
    posts,      \* the Post collection: post id -> document
    users,      \* the User collection: user id -> document
    notes,      \* the Notification collection (recipient, initiator, post)
    hfToken,    \* HF_API_TOKEN is set in the environment
    geminiKey,  \* GEMINI_API_KEY is set in the environment
    lk,         \* likePost requests in flight: slot -> handler frame
    an,         \* analyses in flight: slot -> handler frame
    feed,       \* the last getFeedPosts response
    now,        \* Date.now(), in days
    hist,       \* per user, the last write of the preferences by likePost (ghost)
    started,    \* analyses started so far (ghost, bounds the runs)
    toggled     \* likePost requests received so far (ghost, bounds the runs)

vars == <<posts, users, notes, hfToken, geminiKey, lk, an, feed, now, hist,
          started, toggled>>

---------------------------------------------------------------------------
(* Bounds of the model *)

MaxPosts == 1
MaxTime == 26
MaxAnalyses == 3
MaxToggles == 4
MaxReanalyses == 2
MaxLikePosts == 2
MaxReads == 2
MaxFeedPosts == 2
MaxRankPosts == 2
MaxLiveAnalyses == 2
MaxFrameToggles == 2
MaxFrameAnalyses == 1
MaxPairAnalyses == 3
MaxRaceToggles == 3
MaxToxicityItems == 2
MaxToxicityAnalyses == 1
MaxClockDrift == 2

UserIds == {"u1", "u2"}
PostIds == 1..MaxPosts

\* one likePost request and one analysis are in flight at a time
LikeSlots == {"h1"}
AnalysisSlots == {"a1"}

---------------------------------------------------------------------------
(* JavaScript Map, as used for userPreferences.likedCategories/likedTopics *)

EmptyMap == [k \in {} |-> 0]

MapHas(m, k) == k \in DOMAIN m

\* m.get(k) || 0
MapGetOr0(m, k) == IF k \in DOMAIN m THEN m[k] ELSE 0

MapSet(m, k, v) == [x \in (DOMAIN m) \cup {k} |-> IF x = k THEN v ELSE m[x]]

MapDelete(m, k) == [x \in (DOMAIN m) \ {k} |-> m[x]]

---------------------------------------------------------------------------
(* Documents *)

\* post.aiAnalysis is undefined
NoAnalysis == [absent |-> TRUE]

\* a value is truthy in JavaScript: strings are falsy only when empty
TruthyString(s) == s # ""

\* the placeholder createPost writes
PlaceholderAnalysis ==
    [sentiment |-> "Unknown",
     emotions |-> <<>>,
     toxicity |-> [detected |-> FALSE, details |-> [error |-> "", scores |-> EmptyMap]],
     topics |-> <<>>,
     summary |-> "",
     category |-> "Uncategorized"]

\* new Post({user, content, image, aiAnalysis}); likes defaults to [];
\* v is the version key __v Mongoose keeps for the document's arrays
NewPost(author, t) ==
    [user |-> author, likes |-> <<>>, aiAnalysis |-> PlaceholderAnalysis,
     createdAt |-> t, v |-> 0]

\* a User as signup leaves it: userPreferences default to empty Maps
NewUser ==
    [following |-> {}, likedCategories |-> EmptyMap, likedTopics |-> EmptyMap]

---------------------------------------------------------------------------
(* likePost: the preference arithmetic *)

\* post.likes.includes(userId)
Includes(likes, u) == \E i \in 1..Len(likes) : likes[i] = u

\* post.likes.filter(like => like.toString() !== userId)
FilterOut(likes, u) == SelectSeq(likes, LAMBDA x : x # u)

\* faulty variant: the decrement without the c > 0 test
DecrementKeyUnguarded(m, k) ==
    IF MapHas(m, k) THEN MapSet(m, k, MapGetOr0(m, k) - 1) ELSE m

\* if (m.has(k)) { c = m.get(k) || 0; if (c > 0) m.set(k, c - 1) else m.delete(k) }
DecrementKey(m, k) ==
    IF MapHas(m, k)
    THEN IF MapGetOr0(m, k) > 0
         THEN MapSet(m, k, MapGetOr0(m, k) - 1)
         ELSE MapDelete(m, k)
    ELSE m

\* faulty variant: the increment that forgets the stored count
IncrementKeyFromZero(m, k) == MapSet(m, k, 1)

\* c = m.get(k) || 0; m.set(k, c + 1)
IncrementKey(m, k) == MapSet(m, k, MapGetOr0(m, k) + 1)

\* faulty variant: only the first topic is decremented
DecrementTopicsFirst(m, topics) ==
    IF topics = <<>> THEN m ELSE DecrementKey(m, Head(topics))

\* topics.forEach(topic => { decrement }), in array order
RECURSIVE DecrementTopics(_, _)
DecrementTopics(m, topics) ==
    IF topics = <<>> THEN m
    ELSE DecrementTopics(DecrementKey(m, Head(topics)), Tail(topics))

\* topics.forEach(topic => { increment }), in array order
RECURSIVE IncrementTopics(_, _)
IncrementTopics(m, topics) ==
    IF topics = <<>> THEN m
    ELSE IncrementTopics(IncrementKey(m, Head(topics)), Tail(topics))

\* the unlike branch applied to the loaded user document
UnlikePreferences(user, analysis) ==
    IF analysis = NoAnalysis THEN user
    ELSE [user EXCEPT
            !.likedCategories =
                IF TruthyString(analysis.category)
                THEN DecrementKey(@, analysis.category) ELSE @,
            !.likedTopics =
                IF Len(analysis.topics) > 0
                THEN DecrementTopics(@, analysis.topics) ELSE @]

\* the like branch applied to the loaded user document
LikePreferences(user, analysis) ==
    IF analysis = NoAnalysis THEN user
    ELSE [user EXCEPT
            !.likedCategories =
                IF TruthyString(analysis.category)
                THEN IncrementKey(@, analysis.category) ELSE @,
            !.likedTopics =
                IF Len(analysis.topics) > 0
                THEN IncrementTopics(@, analysis.topics) ELSE @]

---------------------------------------------------------------------------
(* Provider payloads.  A Hugging Face response body is JSON of one of four *)
(* shapes: null, an object such as {error: ...}, a list of items          *)
(* [item, ...] ("flat"), or a list holding a list of items [[item, ...]]  *)
(* ("nested", the documented shape).  An item is {label, score} or null.  *)

JsonNull == [k |-> "null", items |-> <<>>]
JsonObject == [k |-> "object", items |-> <<>>]
Nested(items) == [k |-> "nested", items |-> items]
Flat(items) == [k |-> "flat", items |-> items]

Item(label, score) == [nul |-> FALSE, label |-> label, score |-> score]
NullItem == [nul |-> TRUE, label |-> "", score |-> 0]

\* a settled promise of Promise.allSettled
Rejected(why) == [status |-> "rejected", reason |-> why, value |-> JsonNull]
Fulfilled(v) == [status |-> "fulfilled", reason |-> "", value |-> v]
Pending == [status |-> "pending", reason |-> "", value |-> JsonNull]

\* Array.isArray(value) && Array.isArray(value[0])
IsNestedArray(v) == v.k = "nested"

\* reading item.score or item.label of a null item raises a TypeError
AnyNullItem(items) == \E i \in 1..Len(items) : items[i].nul

\* String.prototype.toLowerCase on the labels the providers use
ToLowerCase(s) ==
    CASE s = "OFFENSIVE" -> "offensive"
      [] s = "Offensive" -> "offensive"
      [] s = "NOT_OFFENSIVE" -> "not_offensive"
      [] s = "Joy" -> "joy"
      [] s = "ANGER" -> "anger"
      [] OTHER -> s

\* label.replace(/_/g, ' ')
ReplaceUnderscores(s) ==
    CASE s = "not_offensive" -> "not offensive"
      [] OTHER -> s

\* parseFloat(score.toFixed(2)): thousandths rounded to hundredths
ToFixed2(score) == (score + 5) \div 10

\* the 'N/A' that stands where a score is expected
ScoreNA == -1

InitialMaxScore == -1
EmotionThreshold == 500
ToxicityThreshold == 500

\* getSentimentLabel: the label of the first item with the greatest score
RECURSIVE SentimentScan(_, _, _)
SentimentScan(scores, maxScore, finalLabel) ==
    IF scores = <<>> THEN finalLabel
    ELSE IF Head(scores).score > maxScore
         THEN SentimentScan(Tail(scores), Head(scores).score, Head(scores).label)
         ELSE SentimentScan(Tail(scores), maxScore, finalLabel)

getSentimentLabel(scores) ==
    LET finalLabel == SentimentScan(scores, InitialMaxScore, "")
    IN  CASE finalLabel = "LABEL_0" -> "Negative"
          [] finalLabel = "LABEL_1" -> "Neutral"
          [] finalLabel = "LABEL_2" -> "Positive"
          [] OTHER -> "Unknown"

\* getEmotionLabels(scores, threshold = 0.5)
RECURSIVE getEmotionLabels(_)
getEmotionLabels(scores) ==
    IF scores = <<>> THEN <<>>
    ELSE (IF Head(scores).score >= EmotionThreshold
          THEN <<[emotion |-> ToLowerCase(Head(scores).label),
                  score |-> ToFixed2(Head(scores).score)]>>
          ELSE <<>>) \o getEmotionLabels(Tail(scores))

\* toxicity.details: the error text (if any) and the label -> score object
Details(err, scores) == [error |-> err, scores |-> scores]

\* the loop of getToxicityScores: <<isToxic, toxicLabels>>
RECURSIVE ToxicityScan(_, _, _)
ToxicityScan(categories, isToxic, toxicLabels) ==
    IF categories = <<>> THEN <<isToxic, toxicLabels>>
    ELSE LET item == Head(categories)
             cleanLabel == ReplaceUnderscores(ToLowerCase(item.label))
         IN  IF item.score >= ToxicityThreshold
             THEN ToxicityScan(Tail(categories),
                               isToxic \/ cleanLabel = "offensive",
                               MapSet(toxicLabels, cleanLabel, ToFixed2(item.score)))
             ELSE ToxicityScan(Tail(categories), isToxic, toxicLabels)

\* const categories = scores[0] || scores; is it an array?
\* nested: scores[0] is the inner list.  flat: scores[0] is the first item, an
\* object, unless the list is empty or its first item is null (falsy), and
\* then categories is the list itself.
ToxicityCategoriesIsArray(v) ==
    \/ v.k = "nested"
    \/ v.k = "flat" /\ (v.items = <<>> \/ Head(v.items).nul)

\* getToxicityScores raises: scores[0] of null, or a null item in the loop
getToxicityScoresThrows(v) ==
    \/ v.k = "null"
    \/ ToxicityCategoriesIsArray(v) /\ AnyNullItem(v.items)

getToxicityScores(v) ==
    IF ~ToxicityCategoriesIsArray(v)
    THEN [detected |-> FALSE,
          details |-> Details("Unexpected response format for categories", EmptyMap)]
    ELSE LET r == ToxicityScan(v.items, FALSE, EmptyMap)
         IN  [detected |-> r[1], details |-> Details("", r[2])]

---------------------------------------------------------------------------
(* The structured (Gemini) call resolves with JSON.parse(text): null, a    *)
(* scalar, or an object.  A field that is missing reads as "" (summary,    *)
(* category) or as the empty list (topics).                                *)

GeminiNull == [k |-> "null", topics |-> <<>>, summary |-> "", category |-> ""]
GeminiScalar == [k |-> "scalar", topics |-> <<>>, summary |-> "", category |-> ""]
GeminiObject(topics, summary, category) ==
    [k |-> "object", topics |-> topics, summary |-> summary, category |-> category]

GeminiCategories ==
    {"News", "Sports", "Technology", "Entertainment", "Politics", "Art",
     "Science", "Education", "Lifestyle", "Travel", "Food", "Health",
     "Personal Update", "Opinion", "Humor", "Other"}

\* x || fallback, for strings
OrElse(x, fallback) == IF TruthyString(x) THEN x ELSE fallback

---------------------------------------------------------------------------
(* performAIAnalysisOnPost after Promise.allSettled: the four normalizers,  *)
(* the override, and the record.  calls is                                  *)
(* [sentiment, emotion, toxicity, gemini |-> settled promise].              *)

Providers == {"sentiment", "emotion", "toxicity", "gemini"}

NormalizeSentiment(p) ==
    IF p.status = "fulfilled"
    THEN IF IsNestedArray(p.value) THEN getSentimentLabel(p.value.items)
         ELSE "Unknown"
    ELSE "Error"

NormalizeEmotions(p) ==
    IF p.status = "fulfilled"
    THEN IF IsNestedArray(p.value) THEN getEmotionLabels(p.value.items)
         ELSE <<>>
    ELSE <<[emotion |-> "Error", score |-> ScoreNA]>>

NormalizeToxicity(p) ==
    IF p.status = "fulfilled"
    THEN getToxicityScores(p.value)
    ELSE [detected |-> FALSE, details |-> Details("N/A", EmptyMap)]

\* topics, summary, category of the structured call
NormalizeGemini(p) ==
    IF p.status = "fulfilled"
    THEN [topics |-> p.value.topics,
          summary |-> OrElse(p.value.summary, "AI summary unavailable."),
          category |-> OrElse(p.value.category, "Uncategorized")]
    ELSE [topics |-> <<"AI Error">>,
          summary |-> "AI summary unavailable.",
          category |-> "Error"]

\* a normalizer raises inside the try block of performAIAnalysisOnPost
NormalizerThrows(calls) ==
    \/ /\ calls.sentiment.status = "fulfilled"
       /\ IsNestedArray(calls.sentiment.value)
       /\ AnyNullItem(calls.sentiment.value.items)
    \/ /\ calls.emotion.status = "fulfilled"
       /\ IsNestedArray(calls.emotion.value)
       /\ AnyNullItem(calls.emotion.value.items)
    \/ /\ calls.toxicity.status = "fulfilled"
       /\ getToxicityScoresThrows(calls.toxicity.value)
    \/ /\ calls.gemini.status = "fulfilled"
       /\ calls.gemini.value.k = "null"

\* faulty variant: the override left out
OverrideSentimentSkipped(sentiment, toxicity) == sentiment

\* if (toxicity.detected) sentiment = 'Mixed'
OverrideSentiment(sentiment, toxicity) ==
    IF toxicity.detected THEN "Mixed" ELSE sentiment

\* the aiAnalysis object that is assigned to post.aiAnalysis
MergeAnalysis(calls) ==
    LET toxicity == NormalizeToxicity(calls.toxicity)
        g == NormalizeGemini(calls.gemini)
    IN  [sentiment |-> OverrideSentiment(NormalizeSentiment(calls.sentiment), toxicity),
         emotions |-> NormalizeEmotions(calls.emotion),
         toxicity |-> toxicity,
         topics |-> g.topics,
         summary |-> g.summary,
         category |-> g.category]

SentimentEnum == {"Positive", "Negative", "Neutral", "Mixed", "Unknown", "Error"}

\* aiAnalysisSchema: what post.save() validates.  sentiment is an enum and an
\* emotion's score is a Number, so the string 'N/A' fails the cast.
SchemaAccepts(a) ==
    /\ a.sentiment \in SentimentEnum
    /\ \A i \in 1..Len(a.emotions) : a.emotions[i].score # ScoreNA

---------------------------------------------------------------------------
(* Provider outcomes the model draws from.  A call is rejected when the    *)
(* provider is unreachable (fetch rejects) or answers a non-2xx status     *)
(* (the wrapper throws); for the structured call also when the answer has  *)
(* no candidate text or JSON.parse fails.                                  *)

SentimentOutcomes ==
    {Rejected("unreachable"), Rejected("non2xx"),
     Fulfilled(Nested(<<Item("LABEL_0", 100), Item("LABEL_1", 200), Item("LABEL_2", 700)>>)),
     Fulfilled(Nested(<<Item("LABEL_0", 800), Item("LABEL_1", 150), Item("LABEL_2", 50)>>)),
     Fulfilled(JsonObject),
     Fulfilled(Nested(<<NullItem>>))}

EmotionOutcomes ==
    {Rejected("unreachable"),
     Fulfilled(Nested(<<Item("Joy", 904), Item("ANGER", 96)>>)),
     Fulfilled(JsonObject)}

ToxicityOutcomes ==
    {Rejected("non2xx"),
     Fulfilled(Nested(<<Item("NOT_OFFENSIVE", 100), Item("OFFENSIVE", 900)>>)),
     Fulfilled(Nested(<<Item("NOT_OFFENSIVE", 900), Item("OFFENSIVE", 100)>>)),
     Fulfilled(Flat(<<Item("OFFENSIVE", 900)>>)),
     Fulfilled(JsonObject),
     Fulfilled(JsonNull)}

GeminiOutcomes ==
    {[status |-> "rejected", reason |-> "unreachable", value |-> GeminiNull],
     [status |-> "rejected", reason |-> "parse", value |-> GeminiNull],
     [status |-> "fulfilled", reason |-> "",
      value |-> GeminiObject(<<"AI", "Go">>, "s", "Technology")],
     [status |-> "fulfilled", reason |-> "",
      value |-> GeminiObject(<<"AI", "AI">>, "s", "Technology")],
     [status |-> "fulfilled", reason |-> "",
      value |-> GeminiObject(<<"Go">>, "", "Gaming")],
     [status |-> "fulfilled", reason |-> "", value |-> GeminiScalar],
     [status |-> "fulfilled", reason |-> "", value |-> GeminiNull]}

\* every outcome class of every provider
AllOutcomes ==
    [sentiment |-> SentimentOutcomes, emotion |-> EmotionOutcomes,
     toxicity |-> ToxicityOutcomes, gemini |-> GeminiOutcomes]

\* the outcomes that decide what a like reads: the structured call fails or
\* answers with a category and topics
CoreOutcomes ==
    [sentiment |-> {Rejected("unreachable")},
     emotion |-> {Fulfilled(JsonObject)},
     toxicity |-> {Fulfilled(Nested(<<Item("NOT_OFFENSIVE", 100), Item("OFFENSIVE", 900)>>))},
     gemini |-> {[status |-> "rejected", reason |-> "unreachable", value |-> GeminiNull],
                 [status |-> "fulfilled", reason |-> "",
                  value |-> GeminiObject(<<"AI", "Go">>, "s", "Technology")]}]

PendingCalls ==
    [sentiment |-> Pending, emotion |-> Pending, toxicity |-> Pending,
     gemini |-> [status |-> "pending", reason |-> "", value |-> GeminiNull]]

---------------------------------------------------------------------------
(* Handler frames *)

NoResult == [kind |-> "none", why |-> "", record |-> PlaceholderAnalysis]
ErrorResult(why) == [kind |-> "error", why |-> why, record |-> PlaceholderAnalysis]
OkResult(rec) == [kind |-> "ok", why |-> "", record |-> rec]

\* writes counts the saves of post.aiAnalysis this invocation has made
IdleAnalysis ==
    [pc |-> "idle", post |-> 0, calls |-> PendingCalls, result |-> NoResult,
     writes |-> 0]

NullPost ==
    [user |-> "", likes |-> <<>>, aiAnalysis |-> NoAnalysis, createdAt |-> 0, v |-> 0]

IdleLike ==
    [pc |-> "idle", user |-> "", post |-> 0, found |-> FALSE,
     postDoc |-> NullPost, userDoc |-> NewUser, isLiked |-> FALSE, resp |-> ""]

\* per user (ghost): "liked" after a like of post, with base the preferences
\* before it; "roundtrip" after the unlike of the same post that follows it
NoHist == [phase |-> "none", post |-> 0, base |-> NewUser]

NextHist(h, isLiked, p, before) ==
    IF ~isLiked THEN [phase |-> "liked", post |-> p, base |-> before]
    ELSE IF h.phase = "liked" /\ h.post = p THEN [h EXCEPT !.phase = "roundtrip"]
    ELSE NoHist

---------------------------------------------------------------------------
(* createPost *)

CreatePost(u) ==
    /\ \E id \in PostIds :
        /\ id \notin DOMAIN posts
        /\ \A j \in PostIds : j < id => j \in DOMAIN posts
        /\ posts' = [x \in (DOMAIN posts) \cup {id} |->
                        IF x = id THEN NewPost(u, now) ELSE posts[x]]
    /\ UNCHANGED <<users, notes, hfToken, geminiKey, lk, an, feed, now, hist, started, toggled>>

\* the clock advances
Tick ==
    /\ now < MaxTime
    /\ now' = now + 1
    /\ UNCHANGED <<posts, users, notes, hfToken, geminiKey, lk, an, feed, hist, started, toggled>>

---------------------------------------------------------------------------
(* performAIAnalysisOnPost / analyzePost *)

\* faulty variant: only the Hugging Face token is checked
TokenPresent == hfToken

\* if (!HF_API_TOKEN) return null; if (!GEMINI_API_KEY) return null;
ConfigPresent == hfToken /\ geminiKey

\* faulty variant: the wait ends only when every call has been fulfilled
AllFulfilled(calls) == \A k \in Providers : calls[k].status = "fulfilled"

\* faulty variant: Promise.race, resolving at the first call that settles
AnySettled(calls) == \E k \in Providers : calls[k].status # "pending"

\* Promise.allSettled resolves once no call is pending
AllSettled(calls) == \A k \in Providers : calls[k].status # "pending"

\* faulty variant: the record is written to every post of the collection
SaveAnalysisToAll(store, p, rec) ==
    [x \in DOMAIN store |-> [store[x] EXCEPT !.aiAnalysis = rec]]

\* post.aiAnalysis = aiAnalysis; await post.save(): the whole record at once
SaveAnalysis(store, p, rec) == [store EXCEPT ![p].aiAnalysis = rec]

\* the configuration checks, Post.findById, and the four calls being issued
\* (limit bounds the analyses of a run)
AnalyzeStart(a, p, limit) ==
    /\ an[a].pc \in {"idle", "done"}
    /\ started < limit
    /\ started' = started + 1
    /\ an' = [an EXCEPT ![a] =
                IF ~ConfigPresent
                THEN [IdleAnalysis EXCEPT !.pc = "done", !.post = p,
                                          !.result = ErrorResult("config")]
                ELSE IF p \notin DOMAIN posts
                THEN [IdleAnalysis EXCEPT !.pc = "done", !.post = p,
                                          !.result = ErrorResult("notfound")]
                ELSE [IdleAnalysis EXCEPT !.pc = "waiting", !.post = p]]
    /\ UNCHANGED <<posts, users, notes, hfToken, geminiKey, lk, feed, now, hist, toggled>>

\* faulty variant: a call that was rejected is issued again and settles anew
ProviderSettleRetry(a, k, O) ==
    /\ an[a].pc = "waiting"
    /\ an[a].calls[k].status \in {"pending", "rejected"}
    /\ \E o \in O[k] : an' = [an EXCEPT ![a].calls[k] = o]
    /\ UNCHANGED <<posts, users, notes, hfToken, geminiKey, lk, feed, now, hist, started, toggled>>

\* one provider call settles, in any order, with an outcome of the set O[k]
ProviderSettle(a, k, O) ==
    /\ an[a].pc = "waiting"
    /\ an[a].calls[k].status = "pending"
    /\ \E o \in O[k] : an' = [an EXCEPT ![a].calls[k] = o]
    /\ UNCHANGED <<posts, users, notes, hfToken, geminiKey, lk, feed, now, hist, started, toggled>>

\* the code after Promise.allSettled: normalizers, override, save, return
AnalyzeFinish(a) ==
    /\ an[a].pc = "waiting"
    /\ AllSettled(an[a].calls)
    /\ LET p == an[a].post
           rec == MergeAnalysis(an[a].calls)
       IN  IF NormalizerThrows(an[a].calls)
           THEN /\ an' = [an EXCEPT ![a].pc = "done",
                                    ![a].result = ErrorResult("exception")]
                /\ posts' = posts
           ELSE IF ~SchemaAccepts(rec) \/ p \notin DOMAIN posts
           THEN /\ an' = [an EXCEPT ![a].pc = "done",
                                    ![a].result = ErrorResult("save")]
                /\ posts' = posts
           ELSE /\ an' = [an EXCEPT ![a].pc = "done",
                                    ![a].result = OkResult(rec),
                                    ![a].writes = @ + 1]
                /\ posts' = SaveAnalysis(posts, p, rec)
    /\ UNCHANGED <<users, notes, hfToken, geminiKey, lk, feed, now, hist, started, toggled>>

\* analyzePost: what the route answers for the result of
\* performAIAnalysisOnPost, which is the updated post or null
AnalyzeResponse(result) ==
    IF result.kind = "ok"
    THEN [status |-> 200, message |-> "Post analyzed successfully and analysis saved."]
    ELSE [status |-> 500, message |-> "Failed to perform AI analysis or post not found."]

---------------------------------------------------------------------------
(* likePost *)

\* the preferences the handler holds after its branch ran on the loaded user
ToggledPreferences(f) ==
    IF f.isLiked THEN UnlikePreferences(f.userDoc, f.postDoc.aiAnalysis)
    ELSE LikePreferences(f.userDoc, f.postDoc.aiAnalysis)

\* faulty variant: the save adds the handler's change to the stored count
MapSaveDelta(stored, loaded, computed) ==
    [k \in (DOMAIN stored) \cup (DOMAIN computed) |->
        MapGetOr0(stored, k) + MapGetOr0(computed, k) - MapGetOr0(loaded, k)]

\* user.save() of a Map: the keys the handler set or deleted are written,
\* every other key of the stored Map stays
MapSave(stored, loaded, computed) ==
    LET touched == {k \in (DOMAIN loaded) \cup (DOMAIN computed) :
                      \/ (k \in DOMAIN loaded) # (k \in DOMAIN computed)
                      \/ /\ k \in DOMAIN loaded
                         /\ k \in DOMAIN computed
                         /\ loaded[k] # computed[k]}
    IN  [k \in ((DOMAIN stored) \ touched) \cup (touched \cap DOMAIN computed) |->
            IF k \in touched THEN computed[k] ELSE stored[k]]

SaveUser(stored, loaded, computed) ==
    [stored EXCEPT
        !.likedCategories = MapSave(@, loaded.likedCategories, computed.likedCategories),
        !.likedTopics = MapSave(@, loaded.likedTopics, computed.likedTopics)]

\* post.save() finds the document to update.  The push of a like is sent as
\* $push with an increment of __v; the filtered array of an unlike is sent
\* as $set of the whole array, which Mongoose guards with the __v it loaded
\* (a VersionError when another save has changed the arrays since).
SaveFinds(store, f) ==
    /\ f.post \in DOMAIN store
    /\ f.isLiked => store[f.post].v = f.postDoc.v

\* what post.save() stores: a like is an append to the stored array, an
\* unlike stores the filtered array the handler holds
SaveLikes(stored, f) ==
    IF f.isLiked THEN FilterOut(f.postDoc.likes, f.user)
    ELSE Append(stored, f.user)

\* const post = await Post.findById(req.params.id)
\* (limit bounds the requests of a run)
LikeFindPost(h, u, p, limit) ==
    /\ lk[h].pc = "idle"
    /\ toggled < limit
    /\ toggled' = toggled + 1
    /\ lk' = [lk EXCEPT ![h] =
                [IdleLike EXCEPT !.pc = "findUser", !.user = u, !.post = p,
                                 !.found = p \in DOMAIN posts,
                                 !.postDoc = IF p \in DOMAIN posts THEN posts[p]
                                             ELSE NullPost]]
    /\ UNCHANGED <<posts, users, notes, hfToken, geminiKey, an, feed, now, hist, started>>

\* the lookup of the user without the check of the post
LikeFindUserUnchecked(h) ==
    /\ lk[h].pc = "findUser"
    /\ lk' = [lk EXCEPT ![h] =
                IF lk[h].user \notin DOMAIN users
                THEN [IdleLike EXCEPT !.resp = "User not found."]
                ELSE [@ EXCEPT !.pc = "saveUser",
                               !.userDoc = users[lk[h].user],
                               !.isLiked = Includes(lk[h].postDoc.likes, lk[h].user)]]
    /\ UNCHANGED <<posts, users, notes, hfToken, geminiKey, an, feed, now, hist, started, toggled>>

\* const user = await User.findById(req.user._id); the 404 answers;
\* isLiked = post.likes.includes(userId)
LikeFindUser(h) ==
    /\ lk[h].pc = "findUser"
    /\ lk' = [lk EXCEPT ![h] =
                IF ~lk[h].found
                THEN [IdleLike EXCEPT !.resp = "Post not found."]
                ELSE IF lk[h].user \notin DOMAIN users
                THEN [IdleLike EXCEPT !.resp = "User not found."]
                ELSE [@ EXCEPT !.pc = "saveUser",
                               !.userDoc = users[lk[h].user],
                               !.isLiked = Includes(lk[h].postDoc.likes, lk[h].user)]]
    /\ UNCHANGED <<posts, users, notes, hfToken, geminiKey, an, feed, now, hist, started, toggled>>

\* the preference arithmetic written to the profile of the post's author
LikeSaveUserOfAuthor(h, track) ==
    /\ lk[h].pc = "saveUser"
    /\ LET f == lk[h]
           u == f.postDoc.user
           after == SaveUser(users[u], f.userDoc, ToggledPreferences(f))
       IN  /\ users' = [users EXCEPT ![u] = after]
           /\ hist' = IF track
                      THEN [hist EXCEPT ![u] = NextHist(@, f.isLiked, f.post, users[u])]
                      ELSE hist
           /\ lk' = [lk EXCEPT ![h].pc = IF f.isLiked THEN "savePost" ELSE "notify"]
    /\ UNCHANGED <<posts, notes, hfToken, geminiKey, an, feed, now, started, toggled>>

\* the branch's preference arithmetic and await user.save()
\* (track: whether the ghost hist follows the write)
LikeSaveUser(h, track) ==
    /\ lk[h].pc = "saveUser"
    /\ LET f == lk[h]
           u == f.user
           after == SaveUser(users[u], f.userDoc, ToggledPreferences(f))
       IN  /\ users' = [users EXCEPT ![u] = after]
           /\ hist' = IF track
                      THEN [hist EXCEPT ![u] = NextHist(@, f.isLiked, f.post, users[u])]
                      ELSE hist
           /\ lk' = [lk EXCEPT ![h].pc = IF f.isLiked THEN "savePost" ELSE "notify"]
    /\ UNCHANGED <<posts, notes, hfToken, geminiKey, an, feed, now, started, toggled>>

\* await createNotification({recipient: post.user, initiator: req.user._id, ...})
LikeNotify(h) ==
    /\ lk[h].pc = "notify"
    /\ notes' = IF lk[h].postDoc.user = lk[h].user THEN notes
                ELSE notes \cup {<<lk[h].postDoc.user, lk[h].user, lk[h].post>>}
    /\ lk' = [lk EXCEPT ![h].pc = "savePost"]
    /\ UNCHANGED <<posts, users, hfToken, geminiKey, an, feed, now, hist, started, toggled>>

\* res.json({message, post}); await post.save().  The answer has been sent
\* when the save runs, so a save that fails leaves the answer as it is.
LikeSavePost(h) ==
    /\ lk[h].pc = "savePost"
    /\ LET f == lk[h]
       IN  /\ posts' = IF SaveFinds(posts, f)
                       THEN [posts EXCEPT ![f.post].likes = SaveLikes(@, f),
                                          ![f.post].v = @ + 1]
                       ELSE posts
           /\ lk' = [lk EXCEPT ![h] =
                        [IdleLike EXCEPT !.resp = IF f.isLiked THEN "Post unliked."
                                                  ELSE "Post liked."]]
    /\ UNCHANGED <<users, notes, hfToken, geminiKey, an, feed, now, hist, started, toggled>>

---------------------------------------------------------------------------
(* getFeedPosts *)

\* oneDayMs * 5, in days; scores are kept multiplied by it
RecencyWindow == 5

FollowBonus == 100
CategoryWeight == 10
TopicWeight == 5
RecencyMax == 5
ToxicityPenalty == 50

Max(a, b) == IF a >= b THEN a ELSE b

\* faulty variant: the score variable is kept between requests, so a score
\* starts from the first score of the previous response
TopicScoreCarried(likedTopics, topics) ==
    IF feed.entries = <<>> THEN 0 ELSE 1 + feed.entries[1].relevanceScore

\* faulty variant: the topics are not scored
TopicScoreSkipped(likedTopics, topics) == 0

\* the topics.forEach of scorePost
RECURSIVE TopicScore(_, _)
TopicScore(likedTopics, topics) ==
    IF topics = <<>> THEN 0
    ELSE (IF MapHas(likedTopics, Head(topics))
          THEN likedTopics[Head(topics)] * TopicWeight ELSE 0)
         + TopicScore(likedTopics, Tail(topics))

\* faulty variant: the bonus decays to 0 over 5 days, as the code's comment says
RecencyScoreFiveDays(post, t) ==
    Max(0, RecencyMax * RecencyWindow - RecencyWindow * (t - post.createdAt))

\* Math.max(0, 5 - (postAgeMs / (oneDayMs * 5))), times RecencyWindow
RecencyScore(post, t) ==
    Max(0, RecencyMax * RecencyWindow - (t - post.createdAt))

\* scorePost(post) for the viewer's loaded user document, Date.now() = t;
\* the value is RecencyWindow times the JavaScript number
scorePost(post, viewer, user, t) ==
    LET a == post.aiAnalysis
        has == a # NoAnalysis
    IN  (IF post.user \in user.following \/ post.user = viewer
         THEN FollowBonus * RecencyWindow ELSE 0)
      + (IF has /\ TruthyString(a.category) /\ MapHas(user.likedCategories, a.category)
         THEN user.likedCategories[a.category] * CategoryWeight * RecencyWindow ELSE 0)
      + (IF has /\ Len(a.topics) > 0
         THEN TopicScore(user.likedTopics, a.topics) * RecencyWindow ELSE 0)
      + RecencyScore(post, t)
      - (IF has /\ a.toxicity.detected THEN ToxicityPenalty * RecencyWindow ELSE 0)

\* faulty variant: the comparator without the createdAt tie-break
CompareScoredNoTie(a, b) == b.relevanceScore - a.relevanceScore

\* the comparator of scoredPosts.sort: negative when a goes first
CompareScored(a, b) ==
    IF b.relevanceScore # a.relevanceScore
    THEN b.relevanceScore - a.relevanceScore
    ELSE b.post.createdAt - a.post.createdAt

\* Array.prototype.sort is stable: e goes before the first entry that the
\* comparator puts after it
RECURSIVE InsertScored(_, _)
InsertScored(sorted, e) ==
    IF sorted = <<>> THEN <<e>>
    ELSE IF CompareScored(Head(sorted), e) > 0
         THEN <<e>> \o sorted
         ELSE <<Head(sorted)>> \o InsertScored(Tail(sorted), e)

RECURSIVE SortScored(_, _)
SortScored(sorted, rest) ==
    IF rest = <<>> THEN sorted
    ELSE SortScored(InsertScored(sorted, Head(rest)), Tail(rest))

\* faulty variant: toxic posts are left out of the response
RECURSIVE ScoredPostsNoToxic(_, _, _, _)
ScoredPostsNoToxic(ids, viewer, user, t) ==
    IF ids = {} THEN <<>>
    ELSE LET id == CHOOSE i \in ids : \A j \in ids : i <= j
         IN  (IF posts[id].aiAnalysis.toxicity.detected THEN <<>>
              ELSE <<[id |-> id, post |-> posts[id], relevanceScore |-> 0]>>)
             \o ScoredPostsNoToxic(ids \ {id}, viewer, user, t)

\* Post.find({}) in the collection's order, each post with its score
RECURSIVE ScoredPosts(_, _, _, _)
ScoredPosts(ids, viewer, user, t) ==
    IF ids = {} THEN <<>>
    ELSE LET id == CHOOSE i \in ids : \A j \in ids : i <= j
         IN  <<[id |-> id, post |-> posts[id],
                relevanceScore |-> scorePost(posts[id], viewer, user, t)]>>
             \o ScoredPosts(ids \ {id}, viewer, user, t)

NoFeed == [viewer |-> "", at |-> 0, user |-> NewUser, entries |-> <<>>]

\* the whole handler: load the user, score every post, sort, respond; the
\* clock stands during the request, so every Date.now() of scorePost reads now
GetFeedPosts(viewer) ==
    /\ viewer \in DOMAIN users
    /\ feed' = [viewer |-> viewer, at |-> now, user |-> users[viewer],
                entries |-> SortScored(<<>>, ScoredPosts(DOMAIN posts, viewer,
                                                         users[viewer], now))]
    /\ UNCHANGED <<posts, users, notes, hfToken, geminiKey, lk, an, now, hist, started, toggled>>

\* posts.map(post => scorePost(post)) with the clock running: scorePost
\* calls Date.now() once for each post, and reads[id] is what it returns for
\* post id
RECURSIVE ScoredPostsAt(_, _, _, _)
ScoredPostsAt(ids, viewer, user, reads) ==
    IF ids = {} THEN <<>>
    ELSE LET id == CHOOSE i \in ids : \A j \in ids : i <= j
         IN  <<[id |-> id, post |-> posts[id], readAt |-> reads[id],
                relevanceScore |-> scorePost(posts[id], viewer, user, reads[id])]>>
             \o ScoredPostsAt(ids \ {id}, viewer, user, reads)

\* the readings of the clock a request can get: from now on, up to drift
\* later, never going back from one post to the next
ClockReads(drift) ==
    {r \in [DOMAIN posts -> now..(now + drift)] :
        \A i, j \in DOMAIN posts : i < j => r[i] <= r[j]}

\* the whole handler while the clock runs
GetFeedPostsClockRuns(viewer, drift) ==
    /\ viewer \in DOMAIN users
    /\ \E reads \in ClockReads(drift) :
          /\ feed' = [viewer |-> viewer, at |-> now, user |-> users[viewer],
                      entries |-> SortScored(<<>>, ScoredPostsAt(DOMAIN posts, viewer,
                                                                 users[viewer], reads))]
          /\ now' = IF DOMAIN posts = {} THEN now
                    ELSE reads[CHOOSE i \in DOMAIN posts : \A j \in DOMAIN posts : j <= i]
    /\ UNCHANGED <<posts, users, notes, hfToken, geminiKey, lk, an, hist, started, toggled>>

---------------------------------------------------------------------------
(* The system: every handler, provider outcomes drawn from CoreOutcomes *)

NoPosts == [x \in {} |-> NullPost]

Init ==
    /\ posts = NoPosts
    /\ users = [u \in UserIds |-> NewUser]
    /\ notes = {}
    /\ hfToken = TRUE
    /\ geminiKey = TRUE
    /\ lk = [h \in LikeSlots |-> IdleLike]
    /\ an = [a \in AnalysisSlots |-> IdleAnalysis]
    /\ feed = NoFeed
    /\ now = 0
    /\ hist = [u \in UserIds |-> NoHist]
    /\ started = 0
    /\ toggled = 0

\* the users who send like requests
Likers == {"u1"}

\* a likePost request for a post id of P
LikeStep(h, track, P, limit) ==
    \/ \E u \in Likers, p \in P : LikeFindPost(h, u, p, limit)
    \/ LikeFindUser(h)
    \/ LikeSaveUser(h, track)
    \/ LikeNotify(h)
    \/ LikeSavePost(h)

\* an analysis of a post id of P; the providers answer in any order
AnalyzeStep(a, O, P, limit) ==
    \/ \E p \in P : AnalyzeStart(a, p, limit)
    \/ \E k \in Providers : ProviderSettle(a, k, O)
    \/ AnalyzeFinish(a)

\* the same, the providers answering in the order the calls were issued
SettleOrder == <<"sentiment", "emotion", "toxicity", "gemini">>

AnalyzeStepInOrder(a, O, P, limit) ==
    \/ \E p \in P : AnalyzeStart(a, p, limit)
    \/ \E i \in 1..Len(SettleOrder) :
          /\ \A j \in 1..(i - 1) : an[a].calls[SettleOrder[j]].status # "pending"
          /\ ProviderSettle(a, SettleOrder[i], O)
    \/ AnalyzeFinish(a)

Next ==
    \/ \E u \in UserIds : CreatePost(u)
    \/ \E h \in LikeSlots : LikeStep(h, FALSE, PostIds, MaxToggles)
    \/ \E a \in AnalysisSlots : AnalyzeStepInOrder(a, CoreOutcomes, PostIds, MaxAnalyses)

Spec == Init /\ [][Next]_vars

---------------------------------------------------------------------------
(* The aggregator alone: one post, every outcome class, any settle order,  *)
(* with and without the credentials                                        *)

AnalyzedPosts == {1, 2}

\* the collection holds one post, not analysed yet
UnanalyzedPosts == [x \in {1} |-> NewPost("u1", 0)]

InitAnalyze ==
    /\ posts = UnanalyzedPosts
    /\ users = [u \in UserIds |-> NewUser]
    /\ notes = {}
    /\ hfToken \in BOOLEAN
    /\ geminiKey \in BOOLEAN
    /\ lk = [h \in LikeSlots |-> IdleLike]
    /\ an = [a \in AnalysisSlots |-> IdleAnalysis]
    /\ feed = NoFeed
    /\ now = 0
    /\ hist = [u \in UserIds |-> NoHist]
    /\ started = 0
    /\ toggled = 0

NextAnalyze ==
    \E a \in AnalysisSlots : AnalyzeStep(a, AllOutcomes, AnalyzedPosts, MaxReanalyses)

SpecAnalyze == InitAnalyze /\ [][NextAnalyze]_vars

---------------------------------------------------------------------------
(* Sequential like toggles over posts whose analysis records stay fixed *)

\* the calls of an analysis whose outcomes are drawn from O
CallsOver(O) ==
    {c \in [Providers -> UNION {O[k] : k \in Providers}] :
        \A k \in Providers : c[k] \in O[k]}

\* the records an analysis with outcomes of O stores
StorableRecords(O) ==
    {MergeAnalysis(c) : c \in {d \in CallsOver(O) :
        ~NormalizerThrows(d) /\ SchemaAccepts(MergeAnalysis(d))}}

LikeOutcomes == [CoreOutcomes EXCEPT !.gemini = GeminiOutcomes]

LikeRecords == {PlaceholderAnalysis} \cup StorableRecords(LikeOutcomes)

LikedPosts == 1..MaxLikePosts

InitLike ==
    /\ posts \in [LikedPosts -> {[NewPost("u2", 0) EXCEPT !.aiAnalysis = r] :
                                   r \in LikeRecords}]
    /\ users = [u \in UserIds |-> NewUser]
    /\ notes = {}
    /\ hfToken = TRUE
    /\ geminiKey = TRUE
    /\ lk = [h \in LikeSlots |-> IdleLike]
    /\ an = [a \in AnalysisSlots |-> IdleAnalysis]
    /\ feed = NoFeed
    /\ now = 0
    /\ hist = [u \in UserIds |-> NoHist]
    /\ started = 0
    /\ toggled = 0

NextLike == LikeStep("h1", TRUE, 1..(MaxLikePosts + 1), MaxToggles)

SpecLike == InitLike /\ [][NextLike]_vars

---------------------------------------------------------------------------
(* Readers beside an analysis: like toggles and feed requests interleaved  *)
(* with the analyses of one post, the providers answering in any order     *)

InitRead ==
    /\ posts = UnanalyzedPosts
    /\ users = [u \in UserIds |-> NewUser]
    /\ notes = {}
    /\ hfToken = TRUE
    /\ geminiKey = TRUE
    /\ lk = [h \in LikeSlots |-> IdleLike]
    /\ an = [a \in AnalysisSlots |-> IdleAnalysis]
    /\ feed = NoFeed
    /\ now = 0
    /\ hist = [u \in UserIds |-> NoHist]
    /\ started = 0
    /\ toggled = 0

NextRead ==
    \/ \E a \in AnalysisSlots : AnalyzeStep(a, CoreOutcomes, {1}, MaxReads)
    \/ \E h \in LikeSlots : LikeStep(h, FALSE, {1}, MaxReads)
    \/ \E u \in Likers : GetFeedPosts(u)

SpecRead == InitRead /\ [][NextRead]_vars

---------------------------------------------------------------------------
(* The scorer alone: posts, follow set and preferences drawn from bounded  *)
(* sets, feed requests as the clock advances                               *)

\* a record of the given category and topics, toxic or not
ScoredRecord(category, topics, toxic) ==
    [PlaceholderAnalysis EXCEPT
        !.category = category, !.topics = topics, !.toxicity.detected = toxic,
        !.sentiment = IF toxic THEN "Mixed" ELSE "Neutral"]

ScoredRecords ==
    {PlaceholderAnalysis,
     ScoredRecord("Technology", <<"AI", "Go">>, FALSE),
     ScoredRecord("Technology", <<"AI", "AI">>, TRUE)}

ScoredCategoryMaps == {EmptyMap, MapSet(EmptyMap, "Technology", 2)}

ScoredTopicMaps == {EmptyMap, MapSet(MapSet(EmptyMap, "AI", 1), "Go", 3)}

FeedPosts == 1..MaxFeedPosts

InitScore ==
    /\ posts \in [FeedPosts -> {[NewPost(u, 0) EXCEPT !.aiAnalysis = r] :
                                  u \in UserIds, r \in ScoredRecords}]
    /\ users \in {[u \in UserIds |->
                     IF u \in Likers
                     THEN [following |-> f, likedCategories |-> c, likedTopics |-> t]
                     ELSE NewUser] :
                  f \in SUBSET (UserIds \ Likers),
                  c \in ScoredCategoryMaps, t \in ScoredTopicMaps}
    /\ notes = {}
    /\ hfToken = TRUE
    /\ geminiKey = TRUE
    /\ lk = [h \in LikeSlots |-> IdleLike]
    /\ an = [a \in AnalysisSlots |-> IdleAnalysis]
    /\ feed = NoFeed
    /\ now = 0
    /\ hist = [u \in UserIds |-> NoHist]
    /\ started = 0
    /\ toggled = 0

NextScore ==
    \/ Tick
    \/ \E u \in Likers : GetFeedPosts(u)

SpecScore == InitScore /\ [][NextScore]_vars

---------------------------------------------------------------------------
(* The ranker alone: posts created at different times, by either user,     *)
(* drawn with the viewer's follow set and preferences; feed requests only  *)

RankedPosts == 1..MaxRankPosts

\* posts are stored in the order of their creation
InitRank ==
    /\ posts \in {ps \in [RankedPosts ->
                            {[NewPost(u, c) EXCEPT !.aiAnalysis = r] :
                               u \in UserIds, c \in 0..1, r \in ScoredRecords}] :
                    \A i, j \in RankedPosts : i < j => ps[i].createdAt <= ps[j].createdAt}
    /\ users \in {[u \in UserIds |->
                     IF u \in Likers
                     THEN [following |-> f, likedCategories |-> c, likedTopics |-> t]
                     ELSE NewUser] :
                  f \in SUBSET (UserIds \ Likers),
                  c \in ScoredCategoryMaps, t \in ScoredTopicMaps}
    /\ notes = {}
    /\ hfToken = TRUE
    /\ geminiKey = TRUE
    /\ lk = [h \in LikeSlots |-> IdleLike]
    /\ an = [a \in AnalysisSlots |-> IdleAnalysis]
    /\ feed = NoFeed
    /\ now \in {1, 30}
    /\ hist = [u \in UserIds |-> NoHist]
    /\ started = 0
    /\ toggled = 0

NextRank == \E u \in Likers : GetFeedPosts(u)

SpecRank == InitRank /\ [][NextRank]_vars

---------------------------------------------------------------------------
(* Progress of the aggregator.  A call is a fetch of the runtime, which     *)
(* rejects a request that is refused, reset or left unanswered past its     *)
(* own timeouts; the code sets no timeout and no AbortSignal of its own.    *)
(* So every pending call settles (weak fairness of each ProviderSettle),    *)
(* and the continuation after Promise.allSettled runs once it is resolved   *)
(* (weak fairness of AnalyzeFinish).                                        *)

\* a call answers in the documented shape or is given up by the runtime
LiveOutcomes ==
    [sentiment |-> {Rejected("timeout"),
                    Fulfilled(Nested(<<Item("LABEL_1", 900)>>))},
     emotion |-> {Rejected("timeout"), Fulfilled(Nested(<<Item("Joy", 904)>>))},
     toxicity |-> {Rejected("timeout"),
                   Fulfilled(Nested(<<Item("NOT_OFFENSIVE", 900)>>))},
     gemini |-> {[status |-> "rejected", reason |-> "timeout", value |-> GeminiNull],
                 [status |-> "fulfilled", reason |-> "",
                  value |-> GeminiObject(<<"AI", "Go">>, "s", "Technology")]}]

NextLive ==
    \E a \in AnalysisSlots : AnalyzeStep(a, LiveOutcomes, AnalyzedPosts, MaxLiveAnalyses)

SpecLive ==
    /\ InitRead
    /\ [][NextLive]_vars
    /\ \A a \in AnalysisSlots :
          /\ WF_vars(AnalyzeFinish(a))
          /\ \A k \in Providers : WF_vars(ProviderSettle(a, k, LiveOutcomes))

---------------------------------------------------------------------------
(* deletePost, followUser, unfollowUser, createBotPost *)

\* some request in flight holds post p
HeldInFlight(p) ==
    \/ \E h \in LikeSlots : lk[h].pc # "idle" /\ lk[h].post = p
    \/ \E a \in AnalysisSlots : an[a].pc = "waiting" /\ an[a].post = p

\* the owner deletes the post: Post.deleteOne({_id})
DeletePost(u, p) ==
    /\ p \in DOMAIN posts
    /\ posts[p].user = u
    /\ posts' = [x \in (DOMAIN posts) \ {p} |-> posts[x]]
    /\ UNCHANGED <<users, notes, hfToken, geminiKey, lk, an, feed, now, hist, started, toggled>>

\* loggedInUser.following.push(id); both users saved; a follow notification
FollowUser(u, v) ==
    /\ u # v
    /\ u \in DOMAIN users
    /\ v \in DOMAIN users
    /\ v \notin users[u].following
    /\ users' = [users EXCEPT ![u].following = @ \cup {v}]
    /\ notes' = notes \cup {<<v, u, 0>>}
    /\ UNCHANGED <<posts, hfToken, geminiKey, lk, an, feed, now, hist, started, toggled>>

\* loggedInUser.following = following.filter(...); both users saved
UnfollowUser(u, v) ==
    /\ u # v
    /\ u \in DOMAIN users
    /\ v \in DOMAIN users
    /\ v \in users[u].following
    /\ users' = [users EXCEPT ![u].following = @ \ {v}]
    /\ UNCHANGED <<posts, notes, hfToken, geminiKey, lk, an, feed, now, hist, started, toggled>>

\* the bot accounts
Bots == {"u2"}

\* createBotPost(userId, content): a post of the bot with the placeholder
CreateBotPost(b) ==
    /\ b \in Bots
    /\ CreatePost(b)

---------------------------------------------------------------------------
(* Every handler that writes a user or a post, requests of both users and  *)
(* of an account that has been removed.  This specification gives the id   *)
(* of a deleted post to the next post created, which the database never    *)
(* does, so here a post is deleted only when no request in flight holds it *)

\* "u0" holds a valid token but has no User document any more
Requesters == UserIds \cup {"u0"}

\* a likePost request of a user of U for a post id of P
LikeStepBy(h, U, P, limit) ==
    \/ \E u \in U, p \in P : LikeFindPost(h, u, p, limit)
    \/ LikeFindUser(h)
    \/ LikeSaveUser(h, FALSE)
    \/ LikeNotify(h)
    \/ LikeSavePost(h)

NextFrame ==
    \/ \E u \in Likers : CreatePost(u)
    \/ \E b \in Bots : CreateBotPost(b)
    \/ \E u \in UserIds, p \in PostIds : ~HeldInFlight(p) /\ DeletePost(u, p)
    \/ \E u \in Likers, v \in UserIds : FollowUser(u, v)
    \/ \E u \in Likers, v \in UserIds : UnfollowUser(u, v)
    \/ \E h \in LikeSlots : LikeStepBy(h, Requesters, 1..(MaxPosts + 1), MaxFrameToggles)
    \/ \E a \in AnalysisSlots :
          AnalyzeStepInOrder(a, CoreOutcomes, PostIds, MaxFrameAnalyses)
    \/ \E u \in Likers : feed = NoFeed /\ GetFeedPosts(u)

SpecFrame == Init /\ [][NextFrame]_vars

---------------------------------------------------------------------------
(* Two analyses in flight, each of its own post, their steps interleaved   *)
(* in any order; the posts carry a like, the users a profile and a follow  *)

PairSlots == {"a1", "a2"}

\* the post each analysis is asked for
PairPost == [a \in PairSlots |-> IF a = "a1" THEN 1 ELSE 2]

\* u2 has liked the first post while it held the placeholder; u1 follows u2
InitPair ==
    /\ posts = [x \in {1, 2} |->
                  IF x = 1 THEN [NewPost("u1", 0) EXCEPT !.likes = <<"u2">>, !.v = 1]
                  ELSE NewPost("u2", 0)]
    /\ users = [u \in UserIds |->
                  IF u = "u1" THEN [NewUser EXCEPT !.following = {"u2"}]
                  ELSE LikePreferences(NewUser, PlaceholderAnalysis)]
    /\ notes = {<<"u1", "u2", 1>>}
    /\ hfToken = TRUE
    /\ geminiKey = TRUE
    /\ lk = [h \in LikeSlots |-> IdleLike]
    /\ an = [a \in PairSlots |-> IdleAnalysis]
    /\ feed = NoFeed
    /\ now = 0
    /\ hist = [u \in UserIds |-> NoHist]
    /\ started = 0
    /\ toggled = 0

NextPair ==
    \E a \in PairSlots :
       AnalyzeStepInOrder(a, LikeOutcomes, {PairPost[a]}, MaxPairAnalyses)

SpecPair == InitPair /\ [][NextPair]_vars

---------------------------------------------------------------------------
(* Two likePost requests in flight at once, of either user and for either  *)
(* of two analysed posts that share their category and topics, while the   *)
(* author may delete a post.  No post is created, so no id is used twice.  *)

RaceSlots == {"h1", "h2"}

RacePosts == {1, 2}

\* the record of an analysis whose structured call answered
SharedRecord == CHOOSE r \in StorableRecords(CoreOutcomes) : r.category = "Technology"

InitRace ==
    /\ posts = [x \in RacePosts |-> [NewPost("u2", 0) EXCEPT !.aiAnalysis = SharedRecord]]
    /\ users = [u \in UserIds |-> NewUser]
    /\ notes = {}
    /\ hfToken = TRUE
    /\ geminiKey = TRUE
    /\ lk = [h \in RaceSlots |-> IdleLike]
    /\ an = [a \in AnalysisSlots |-> IdleAnalysis]
    /\ feed = NoFeed
    /\ now = 0
    /\ hist = [u \in UserIds |-> NoHist]
    /\ started = 0
    /\ toggled = 0

NextRace ==
    \/ \E h \in RaceSlots : LikeStepBy(h, UserIds, RacePosts, MaxRaceToggles)
    \/ \E p \in RacePosts : DeletePost("u2", p)

SpecRace == InitRace /\ [][NextRace]_vars

---------------------------------------------------------------------------
(* The toxicity normalizer alone: one analysis whose toxicity call answers *)
(* any list of up to MaxToxicityItems entries, as [[...]] or as [...], or  *)
(* an object, or null, or fails; the other calls answer one way            *)

ToxicityLabels == {"OFFENSIVE", "Offensive", "NOT_OFFENSIVE"}

\* below, at and above the threshold
ToxicityScores == {499, 500, 900}

ToxicityItems == {Item(l, s) : l \in ToxicityLabels, s \in ToxicityScores}

ToxicityLists ==
    UNION {[1..n -> ToxicityItems] : n \in 0..MaxToxicityItems}

ToxicityPayloads ==
    {Nested(items) : items \in ToxicityLists}
        \cup {Flat(items) : items \in ToxicityLists}
        \cup {JsonObject, JsonNull}

ToxicityOnlyOutcomes ==
    [sentiment |-> {Fulfilled(Nested(<<Item("LABEL_1", 900)>>))},
     emotion |-> {Fulfilled(Nested(<<Item("Joy", 904)>>))},
     toxicity |-> {Rejected("non2xx")} \cup {Fulfilled(v) : v \in ToxicityPayloads},
     gemini |-> {[status |-> "fulfilled", reason |-> "",
                  value |-> GeminiObject(<<"AI", "Go">>, "s", "Technology")]}]

NextToxicity ==
    \E a \in AnalysisSlots :
       AnalyzeStepInOrder(a, ToxicityOnlyOutcomes, {1}, MaxToxicityAnalyses)

SpecToxicity == InitRead /\ [][NextToxicity]_vars

---------------------------------------------------------------------------
(* Feed requests while the clock runs: the posts, follow set and           *)
(* preferences of the ranker, each post scored at its own Date.now()       *)

NextClock == \E u \in Likers : feed = NoFeed /\ GetFeedPostsClockRuns(u, MaxClockDrift)

SpecClock == InitRank /\ [][NextClock]_vars

---------------------------------------------------------------------------
(* Properties of the like toggle *)

\* no likePost request is between its first read and its last write
LikesQuiescent == \A h \in LikeSlots : lk[h].pc = "idle"

Range(seq) == {seq[i] : i \in 1..Len(seq)}

\* the posts whose like-set contains u
LikedBy(u) == {p \in DOMAIN posts : Includes(posts[p].likes, u)}

PostsOfCategory(u, c) == {p \in LikedBy(u) : posts[p].aiAnalysis.category = c}

PostsOfTopic(u, t) == {p \in LikedBy(u) : t \in Range(posts[p].aiAnalysis.topics)}

StoredCategories(u) ==
    DOMAIN users[u].likedCategories
        \cup {posts[p].aiAnalysis.category : p \in DOMAIN posts}

StoredTopics(u) ==
    DOMAIN users[u].likedTopics
        \cup UNION {Range(posts[p].aiAnalysis.topics) : p \in DOMAIN posts}

\* the number of places of topics holding t
Occurrences(topics, t) == Cardinality({i \in 1..Len(topics) : topics[i] = t})

RECURSIVE SumOccurrences(_, _)
SumOccurrences(ps, t) ==
    IF ps = {} THEN 0
    ELSE LET p == CHOOSE x \in ps : TRUE
         IN  Occurrences(posts[p].aiAnalysis.topics, t) + SumOccurrences(ps \ {p}, t)

\* C1 (as claimed): between sequential toggles over fixed records, each
\* category counter equals the number of currently liked posts of that
\* category, and each topic counter the number of currently liked posts whose
\* topics contain that topic.
C1_CountersEqualLikedPosts ==
    LikesQuiescent =>
        \A u \in UserIds :
            /\ \A c \in StoredCategories(u) :
                  MapGetOr0(users[u].likedCategories, c)
                      = Cardinality(PostsOfCategory(u, c))
            /\ \A t \in StoredTopics(u) :
                  MapGetOr0(users[u].likedTopics, t)
                      = Cardinality(PostsOfTopic(u, t))

\* C1 (what the code keeps): the category counters do equal the number of
\* liked posts, but a topic counter equals the number of occurrences of the
\* topic in the topics arrays of the liked posts, a repeated topic counting
\* once per occurrence.
C1_CountersEqualOccurrences ==
    LikesQuiescent =>
        \A u \in UserIds :
            /\ \A c \in StoredCategories(u) :
                  MapGetOr0(users[u].likedCategories, c)
                      = Cardinality(PostsOfCategory(u, c))
            /\ \A t \in StoredTopics(u) :
                  MapGetOr0(users[u].likedTopics, t)
                      = SumOccurrences(LikedBy(u), t)

\* two posts of the same category are liked, one of them naming a topic twice
C1_Witness ==
    /\ LikesQuiescent
    /\ Cardinality(LikedBy("u1")) = 2
    /\ \E p \in LikedBy("u1") : \E t \in Range(posts[p].aiAnalysis.topics) :
          Occurrences(posts[p].aiAnalysis.topics, t) = 2
    /\ \E c \in DOMAIN users["u1"].likedCategories : users["u1"].likedCategories[c] = 2

\* C3 (as claimed): after a like and the unlike of the same post that follows
\* it, likedCategories and likedTopics are the same mappings, key sets
\* included, as before the like.
C3_RoundTripSameMapping ==
    \A u \in UserIds :
        hist[u].phase = "roundtrip" =>
            /\ users[u].likedCategories = hist[u].base.likedCategories
            /\ users[u].likedTopics = hist[u].base.likedTopics

\* m and n hold the same counts, an absent key counting as 0
SameCounts(m, n) ==
    \A k \in (DOMAIN m) \cup (DOMAIN n) : MapGetOr0(m, k) = MapGetOr0(n, k)

\* C3 (amended): after a like and the unlike of the same post that follows
\* it, every category and topic has the count it had before the like, an
\* absent key counting as 0; a key the like created stays, holding 0.
C3_RoundTripSameCounts ==
    \A u \in UserIds :
        hist[u].phase = "roundtrip" =>
            /\ SameCounts(users[u].likedCategories, hist[u].base.likedCategories)
            /\ SameCounts(users[u].likedTopics, hist[u].base.likedTopics)
            /\ DOMAIN hist[u].base.likedCategories \subseteq DOMAIN users[u].likedCategories
            /\ DOMAIN hist[u].base.likedTopics \subseteq DOMAIN users[u].likedTopics

\* a round trip on a post of a category already counted, with topics
C3_Witness ==
    \E u \in UserIds :
        /\ hist[u].phase = "roundtrip"
        /\ LikesQuiescent
        /\ \E c \in DOMAIN hist[u].base.likedCategories :
              /\ hist[u].base.likedCategories[c] = 1
              /\ posts[hist[u].post].aiAnalysis.category = c
        /\ Len(posts[hist[u].post].aiAnalysis.topics) = 2
        /\ \E t \in DOMAIN users[u].likedTopics :
              /\ t \notin DOMAIN hist[u].base.likedTopics
              /\ users[u].likedTopics[t] = 0

\* every stored count is at least 0
CountsNonNegative ==
    \A u \in UserIds :
        /\ \A c \in DOMAIN users[u].likedCategories : users[u].likedCategories[c] >= 0
        /\ \A t \in DOMAIN users[u].likedTopics : users[u].likedTopics[t] >= 0

\* the step of request h that saves the user in the unlike branch
UnlikeSaves(h) ==
    /\ lk[h].pc = "saveUser"
    /\ lk[h].isLiked
    /\ lk'[h].pc = "savePost"

\* what an unlike does to the keys of the record it read: a key stored with
\* count 0 is removed, an absent key stays absent, and the mapping is left
\* as it was when none of the record's keys is in it
UnlikeAtZeroOrAbsent(h) ==
    LET f == lk[h]
        a == f.postDoc.aiAnalysis
        before == users[f.user]
        after == users'[f.user]
    IN  /\ MapGetOr0(before.likedCategories, a.category) = 0
              => a.category \notin DOMAIN after.likedCategories
        /\ a.category \notin DOMAIN before.likedCategories
              => after.likedCategories = before.likedCategories
        /\ \A t \in Range(a.topics) :
              MapGetOr0(before.likedTopics, t) = 0
                  => t \notin DOMAIN after.likedTopics
        /\ Range(a.topics) \cap DOMAIN before.likedTopics = {}
              => after.likedTopics = before.likedTopics

\* C4: no stored count of likedCategories or likedTopics is ever negative;
\* an unlike of a key whose stored count is 0 removes the key, and an unlike
\* of an absent key leaves the mapping unchanged.
C4_NoNegativeCount ==
    /\ []CountsNonNegative
    /\ [][\A h \in LikeSlots : UnlikeSaves(h) => UnlikeAtZeroOrAbsent(h)]_vars

\* an unlike has just removed a category and a topic that were stored with 0
C4_Witness ==
    \E h \in LikeSlots :
        LET f == lk[h]
            a == f.postDoc.aiAnalysis
        IN  /\ f.pc = "savePost"
            /\ f.isLiked
            /\ MapHas(f.userDoc.likedCategories, a.category)
            /\ f.userDoc.likedCategories[a.category] = 0
            /\ ~MapHas(users[f.user].likedCategories, a.category)
            /\ \E t \in Range(a.topics) :
                  /\ MapHas(f.userDoc.likedTopics, t)
                  /\ f.userDoc.likedTopics[t] = 0
                  /\ ~MapHas(users[f.user].likedTopics, t)

---------------------------------------------------------------------------
(* Properties of the aggregator *)

\* analysis a has returned for an existing post with both credentials set
Returned(a) ==
    /\ an[a].pc = "done"
    /\ ConfigPresent
    /\ an[a].post \in DOMAIN posts

Failed(a, k) == an[a].calls[k].status = "rejected"

\* C2: whenever a stored record has toxicity.detected = true its sentiment is
\* Mixed, whatever the sentiment call gave; the record an analysis stores
\* takes its sentiment from the override applied to the outputs of the
\* sentiment and toxicity normalizers.
C2_ToxicImpliesMixed ==
    /\ \A p \in DOMAIN posts :
          posts[p].aiAnalysis.toxicity.detected => posts[p].aiAnalysis.sentiment = "Mixed"
    /\ \A a \in AnalysisSlots :
          Returned(a) /\ an[a].result.kind = "ok" =>
              /\ posts[an[a].post].aiAnalysis = an[a].result.record
              /\ an[a].result.record.toxicity = NormalizeToxicity(an[a].calls.toxicity)
              /\ an[a].result.record.sentiment =
                    OverrideSentiment(NormalizeSentiment(an[a].calls.sentiment),
                                      an[a].result.record.toxicity)

\* a toxic record is stored although the sentiment call answered Positive,
\* and another although the sentiment call failed
C2_Witness ==
    \E a \in AnalysisSlots :
        /\ Returned(a)
        /\ an[a].result.kind = "ok"
        /\ posts[an[a].post].aiAnalysis.toxicity.detected
        /\ an[a].calls.sentiment.status = "fulfilled"
        /\ NormalizeSentiment(an[a].calls.sentiment) = "Positive"
        /\ posts[an[a].post].aiAnalysis.sentiment = "Mixed"

\* C5 (as claimed): with both credentials set and the post existing, Analyze
\* returns a record, never an error, whatever each provider call did.
C5_AnalyzeNeverFails ==
    \A a \in AnalysisSlots : Returned(a) => an[a].result.kind = "ok"

\* C5 (what the code does): Analyze returns an error exactly when a
\* normalizer raises on a payload (a null body, a null item, a structured
\* answer that parses to null) or the emotion call failed, whose sentinel
\* score 'N/A' the schema rejects on save.
C5_FailsExactlyWhen ==
    \A a \in AnalysisSlots :
        Returned(a) =>
            (an[a].result.kind = "error"
                <=> NormalizerThrows(an[a].calls) \/ Failed(a, "emotion"))

\* the structured answer parsed to null, every other call succeeded in the
\* documented shape, and Analyze returned an error
C5_Witness ==
    \E a \in AnalysisSlots :
        /\ Returned(a)
        /\ an[a].result.kind = "error"
        /\ an[a].calls.gemini.status = "fulfilled"
        /\ an[a].calls.gemini.value.k = "null"
        /\ \A k \in {"sentiment", "emotion", "toxicity"} :
              /\ an[a].calls[k].status = "fulfilled"
              /\ IsNestedArray(an[a].calls[k].value)
              /\ ~AnyNullItem(an[a].calls[k].value.items)

\* the record of C6: the sentinel of every failed call, the normalized value
\* of every other, the override applied
SentinelRecord(calls) ==
    LET toxicity == IF calls.toxicity.status = "rejected"
                    THEN [detected |-> FALSE, details |-> Details("N/A", EmptyMap)]
                    ELSE NormalizeToxicity(calls.toxicity)
        gem == calls.gemini.status = "rejected"
    IN  [sentiment |-> OverrideSentiment(
                          IF calls.sentiment.status = "rejected" THEN "Error"
                          ELSE NormalizeSentiment(calls.sentiment), toxicity),
         emotions |-> IF calls.emotion.status = "rejected"
                      THEN <<[emotion |-> "Error", score |-> ScoreNA]>>
                      ELSE NormalizeEmotions(calls.emotion),
         toxicity |-> toxicity,
         topics |-> IF gem THEN <<"AI Error">> ELSE NormalizeGemini(calls.gemini).topics,
         summary |-> IF gem THEN "AI summary unavailable."
                     ELSE NormalizeGemini(calls.gemini).summary,
         category |-> IF gem THEN "Error" ELSE NormalizeGemini(calls.gemini).category]

\* C6 (as claimed): whichever calls fail, Analyze reports success and the
\* record it stores and returns carries the sentinel of each failed call and
\* the normalized value of each other call.
C6_SentinelsStored ==
    \A a \in AnalysisSlots :
        Returned(a) /\ (\E k \in Providers : Failed(a, k)) /\ ~NormalizerThrows(an[a].calls) =>
            /\ an[a].result.kind = "ok"
            /\ an[a].result.record = SentinelRecord(an[a].calls)
            /\ posts[an[a].post].aiAnalysis = SentinelRecord(an[a].calls)

\* C6 (what the code does): the sentinel record is stored and returned when
\* the emotion call is not among the failed ones; when it is, Analyze returns
\* an error.
C6_SentinelsUnlessEmotionFailed ==
    \A a \in AnalysisSlots :
        Returned(a) /\ (\E k \in Providers : Failed(a, k)) /\ ~NormalizerThrows(an[a].calls) =>
            IF Failed(a, "emotion")
            THEN an[a].result.kind = "error" /\ an[a].writes = 0
            ELSE /\ an[a].result.kind = "ok"
                 /\ an[a].result.record = SentinelRecord(an[a].calls)
                 /\ posts[an[a].post].aiAnalysis = SentinelRecord(an[a].calls)

\* all four calls failed: Analyze returned an error and the placeholder is
\* still the stored record
C6_Witness ==
    \E a \in AnalysisSlots :
        /\ Returned(a)
        /\ \A k \in Providers : Failed(a, k)
        /\ an[a].result.kind = "error"
        /\ posts[an[a].post].aiAnalysis = PlaceholderAnalysis

\* the categories C7 allows: the vocabulary of the prompt and the sentinels
AllowedCategories == GeminiCategories \cup {"Other", "Uncategorized", "Error"}

\* a record has every field, with sentiment in the enum, toxicity.detected a
\* boolean, topics a list and emotions a list
Defined(a) ==
    /\ a # NoAnalysis
    /\ DOMAIN a = {"sentiment", "emotions", "toxicity", "topics", "summary", "category"}
    /\ a.sentiment \in SentimentEnum
    /\ a.toxicity.detected \in BOOLEAN
    /\ a.topics \in Seq(STRING)
    /\ a.summary \in STRING
    /\ a.category \in STRING

\* C7 (as claimed): every post's record always has all six fields defined,
\* sentiment in the enum, toxicity.detected a boolean, and category in the
\* category vocabulary or one of Other, Uncategorized, Error.
C7_RecordAlwaysInRange ==
    \A p \in DOMAIN posts :
        /\ Defined(posts[p].aiAnalysis)
        /\ posts[p].aiAnalysis.category \in AllowedCategories

\* C7 (what the code keeps): every post's record always has all six fields
\* defined, sentiment in the enum and toxicity.detected a boolean; its
\* category is a non-empty string, the one the structured call answered when
\* it answered one.
C7_RecordAlwaysDefined ==
    /\ \A p \in DOMAIN posts :
          /\ Defined(posts[p].aiAnalysis)
          /\ TruthyString(posts[p].aiAnalysis.category)
    /\ \A a \in AnalysisSlots :
          Returned(a) /\ an[a].result.kind = "ok" /\ ~Failed(a, "gemini")
                      /\ TruthyString(an[a].calls.gemini.value.category) =>
              posts[an[a].post].aiAnalysis.category = an[a].calls.gemini.value.category

\* a category outside the vocabulary is stored
C7_Witness ==
    \E p \in DOMAIN posts :
        /\ posts[p].aiAnalysis.category \notin AllowedCategories
        /\ \E a \in AnalysisSlots : Returned(a) /\ an[a].post = p /\ an[a].result.kind = "ok"

\* C9: when the Hugging Face token or the Gemini key is absent, Analyze
\* returns an error, no provider call is issued or settles, and the stored
\* record stays as it was.
C9_NoCredentialNoAnalysis ==
    (~hfToken \/ ~geminiKey) =>
        /\ posts = UnanalyzedPosts
        /\ \A a \in AnalysisSlots :
              /\ an[a].pc \in {"idle", "done"}
              /\ an[a].calls = PendingCalls
              /\ an[a].writes = 0
              /\ an[a].pc = "done" =>
                    an[a].result.kind = "error" /\ an[a].result.why = "config"

\* Analyze has returned the error with the Gemini key alone absent
C9_Witness ==
    /\ hfToken
    /\ ~geminiKey
    /\ \E a \in AnalysisSlots :
          /\ an[a].pc = "done"
          /\ an[a].post \in DOMAIN posts
          /\ an[a].result = ErrorResult("config")

\* the records a post of SpecRead can hold
WrittenRecords == {PlaceholderAnalysis} \cup StorableRecords(CoreOutcomes)

\* the step writes the record of post p
RecordWritten(p) ==
    /\ p \in DOMAIN posts
    /\ p \in DOMAIN posts'
    /\ posts'[p].aiAnalysis # posts[p].aiAnalysis

\* the write is the one save of an analysis of p all of whose calls settled,
\* and it stores the merged record whole
WrittenOnceAfterAllSettled(p) ==
    \E a \in AnalysisSlots :
        /\ an[a].pc = "waiting"
        /\ an[a].post = p
        /\ \A k \in Providers : an[a].calls[k].status \in {"fulfilled", "rejected"}
        /\ an[a].writes = 0
        /\ an'[a].pc = "done"
        /\ an'[a].writes = 1
        /\ posts'[p].aiAnalysis = MergeAnalysis(an[a].calls)

\* an invocation that is waiting has written nothing, one that returned a
\* record has written once, one that returned an error has written nothing
WritesCounted ==
    \A a \in AnalysisSlots :
        /\ an[a].pc = "waiting" => an[a].writes = 0
        /\ an[a].pc = "done" =>
              an[a].writes = (IF an[a].result.kind = "ok" THEN 1 ELSE 0)

\* every record a like toggle or a feed response holds is a whole record
ReadersSeeWholeRecords ==
    /\ \A h \in LikeSlots :
          lk[h].pc # "idle" /\ lk[h].found => lk[h].postDoc.aiAnalysis \in WrittenRecords
    /\ \A i \in 1..Len(feed.entries) : feed.entries[i].post.aiAnalysis \in WrittenRecords
    /\ \A p \in DOMAIN posts : posts[p].aiAnalysis \in WrittenRecords

---------------------------------------------------------------------------
(* Properties of the scorer *)

\* likedTopics[t] summed over the places of topics whose topic is in the map
RECURSIVE SumOfLikedTopics(_, _)
SumOfLikedTopics(m, topics) ==
    IF topics = <<>> THEN 0
    ELSE (IF Head(topics) \in DOMAIN m THEN m[Head(topics)] ELSE 0)
         + SumOfLikedTopics(m, Tail(topics))

\* five times the recency bonus max(0, 5 - age / 5) of a post aged age days
RecencyBonusTimes5(age) == IF 25 - age > 0 THEN 25 - age ELSE 0

\* five times the score C10 gives entry e of the feed response
ClaimedScoreTimes5(e) ==
    LET a == e.post.aiAnalysis
        u == feed.user
    IN  5 * ( (IF e.post.user = feed.viewer \/ e.post.user \in u.following
               THEN 100 ELSE 0)
            + (IF a.category \in DOMAIN u.likedCategories
               THEN 10 * u.likedCategories[a.category] ELSE 0)
            + 5 * SumOfLikedTopics(u.likedTopics, a.topics)
            - (IF a.toxicity.detected THEN 50 ELSE 0) )
        + RecencyBonusTimes5(feed.at - e.post.createdAt)

\* C10: the relevanceScore of every post of a feed response is 100 if the
\* author is the viewer or followed, plus 10 times the liked count of the
\* post's category, plus 5 times the liked count of each of its topics, plus
\* the recency bonus, minus 50 if the post is toxic; the sum is not clamped.
\* (A topic the post names twice is added twice, as topics.forEach does.  The
\* weights are those of the scorePost that getFeedPosts runs over
\* Post.find({}); the earlier copy of getFeedPosts, which queries the posts
\* of followed authors only, scores with 10, 2, 1 and 5 in their place.)
C10_RelevanceScoreFormula ==
    \A i \in 1..Len(feed.entries) :
        feed.entries[i].relevanceScore = ClaimedScoreTimes5(feed.entries[i])

\* one response holds a post with every bonus and a post whose score is
\* negative
C10_Witness ==
    /\ Len(feed.entries) = 2
    /\ \E i, j \in 1..2 :
          /\ feed.entries[i].relevanceScore > 5 * 100 + 5 * 10 + 5 * 5
          /\ feed.entries[i].post.user = feed.viewer
          /\ feed.entries[i].post.aiAnalysis.category \in DOMAIN feed.user.likedCategories
          /\ feed.entries[j].post.user \notin feed.user.following \cup {feed.viewer}
          /\ feed.at - feed.entries[i].post.createdAt = 3
          /\ feed.entries[j].relevanceScore < 0
          /\ feed.entries[j].post.aiAnalysis.toxicity.detected

---------------------------------------------------------------------------
(* Properties of the ranker *)

\* a feed request has been answered
FeedServed == feed.viewer # ""

\* C11: in a feed response every post is followed by one of strictly smaller
\* relevanceScore, or of equal relevanceScore and a createdAt that is not
\* later (newest first on ties).
C11_FeedOrdered ==
    \A i \in 1..(Len(feed.entries) - 1) :
        LET a == feed.entries[i]
            b == feed.entries[i + 1]
        IN  \/ a.relevanceScore > b.relevanceScore
            \/ /\ a.relevanceScore = b.relevanceScore
               /\ a.post.createdAt >= b.post.createdAt

\* two posts of equal score: the one stored second, created later, is
\* returned first
C11_Witness ==
    /\ Len(feed.entries) = 2
    /\ feed.entries[1].relevanceScore = feed.entries[2].relevanceScore
    /\ feed.entries[1].post.createdAt > feed.entries[2].post.createdAt
    /\ feed.entries[1].id > feed.entries[2].id

\* C12: a feed response holds every stored post exactly once, toxic posts
\* and posts of negative score included, each as stored, with only the
\* relevanceScore added.
C12_FeedKeepsEveryPost ==
    FeedServed =>
        /\ Len(feed.entries) = Cardinality(DOMAIN posts)
        /\ \A p \in DOMAIN posts :
              \E i \in 1..Len(feed.entries) :
                  /\ feed.entries[i].id = p
                  /\ feed.entries[i].post = posts[p]
                  /\ \A j \in 1..Len(feed.entries) : feed.entries[j].id = p => j = i
        /\ \A i \in 1..Len(feed.entries) :
              DOMAIN feed.entries[i] = {"id", "post", "relevanceScore"}

\* the response holds a toxic post of negative score beside another post
C12_Witness ==
    /\ FeedServed
    /\ Len(feed.entries) = 2
    /\ \E i \in 1..2 :
          /\ feed.entries[i].post.aiAnalysis.toxicity.detected
          /\ feed.entries[i].relevanceScore < 0

\* the stored state is the one the last feed response was computed from
SameAsServed ==
    /\ FeedServed
    /\ feed.at = now
    /\ feed.user = users[feed.viewer]
    /\ Len(feed.entries) = Cardinality(DOMAIN posts)
    /\ \A i \in 1..Len(feed.entries) :
          /\ feed.entries[i].id \in DOMAIN posts
          /\ feed.entries[i].post = posts[feed.entries[i].id]

---------------------------------------------------------------------------
(* Properties that join the like toggle and the scorer *)

\* the step of request h that saves the user in the like branch
LikeSaves(h) ==
    /\ lk[h].pc = "saveUser"
    /\ ~lk[h].isLiked
    /\ lk'[h].pc = "notify"

SharedCategory(a, b) == TruthyString(a.category) /\ a.category = b.category

SharedTopics(a, b) == Range(a.topics) \cap Range(b.topics)

\* the posts other than p1 that share the category or a topic with it
Related(p1) ==
    {p2 \in DOMAIN posts \ {p1} :
        \/ SharedCategory(posts[p1].aiAnalysis, posts[p2].aiAnalysis)
        \/ SharedTopics(posts[p1].aiAnalysis, posts[p2].aiAnalysis) # {}}

\* what the step adds to the score of post p2 for user u, times RecencyWindow
ScoreGain(u, p2) ==
    scorePost(posts[p2], u, users'[u], now) - scorePost(posts[p2], u, users[u], now)

RECURSIVE SumOverTopics(_, _, _)
SumOverTopics(ts, a, b) ==
    IF ts = {} THEN 0
    ELSE LET t == CHOOSE x \in ts : TRUE
         IN  Occurrences(a.topics, t) * Occurrences(b.topics, t)
                + SumOverTopics(ts \ {t}, a, b)

\* C14 (as claimed): when a user likes a post not liked before, the score for
\* that user of every other post sharing its category or a topic grows, at
\* the same now, by 10 if the category is shared plus 5 for each shared
\* topic, and so strictly.
C14_LikeRaisesRelatedScore ==
    [][\A h \in LikeSlots :
          LikeSaves(h) =>
              \A p2 \in Related(lk[h].post) :
                  LET a == posts[lk[h].post].aiAnalysis
                      b == posts[p2].aiAnalysis
                  IN  /\ ScoreGain(lk[h].user, p2) > 0
                      /\ ScoreGain(lk[h].user, p2) =
                            RecencyWindow *
                              ((IF SharedCategory(a, b) THEN 10 ELSE 0)
                               + 5 * Cardinality(SharedTopics(a, b)))]_vars

\* C14 (what the code does): the score grows strictly, by 10 if the category
\* is shared plus, for each shared topic, 5 times the number of times the
\* liked post names it times the number of times the other post names it.
C14_LikeRaisesByOccurrences ==
    [][\A h \in LikeSlots :
          LikeSaves(h) =>
              \A p2 \in Related(lk[h].post) :
                  LET a == posts[lk[h].post].aiAnalysis
                      b == posts[p2].aiAnalysis
                  IN  /\ ScoreGain(lk[h].user, p2) > 0
                      /\ ScoreGain(lk[h].user, p2) =
                            RecencyWindow *
                              ((IF SharedCategory(a, b) THEN 10 ELSE 0)
                               + 5 * SumOverTopics(SharedTopics(a, b), a, b))]_vars

\* the user has just liked a post that names AI twice while another post
\* names AI once: one shared topic, counted twice
C14_Witness ==
    \E h \in LikeSlots :
        /\ lk[h].pc = "notify"
        /\ lk[h].found
        /\ \E p2 \in DOMAIN posts \ {lk[h].post} :
              /\ posts[lk[h].post].aiAnalysis.topics = <<"AI", "AI">>
              /\ posts[p2].aiAnalysis.topics = <<"AI", "Go">>
              /\ users[lk[h].user].likedTopics = MapSet(EmptyMap, "AI", 2)
              /\ scorePost(posts[p2], lk[h].user, users[lk[h].user], now)
                    - scorePost(posts[p2], lk[h].user, lk[h].userDoc, now)
                        = RecencyWindow * (10 + 5 * 2)

---------------------------------------------------------------------------
(* Properties of the recency term *)

\* the recency term of post p at the present now, times RecencyWindow
RecencyNow(p) == RecencyScore(posts[p], now)

\* the age of post p in days
AgeNow(p) == now - posts[p].createdAt

\* the recency term, as max(0, 5 - age / 5), is between 0 and 5 and is 0
\* from 25 days on and not before
RecencyInRange ==
    \A p \in DOMAIN posts :
        /\ RecencyNow(p) >= 0
        /\ RecencyNow(p) <= 5 * 5
        /\ 5 * 5 - AgeNow(p) >= 0 => RecencyNow(p) = 5 * 5 - AgeNow(p)
        /\ AgeNow(p) >= 25 <=> RecencyNow(p) = 0
        /\ \A i \in 1..Len(feed.entries) :
              feed.entries[i].id = p /\ feed.at = now =>
                  feed.entries[i].relevanceScore - RecencyNow(p)
                      = ClaimedScoreTimes5(feed.entries[i])
                            - RecencyBonusTimes5(feed.at - feed.entries[i].post.createdAt)

---------------------------------------------------------------------------
(* Properties of the feed's candidates *)

\* C20 (as claimed): every post of a feed response is authored by the
\* requesting user or by a user the requesting user follows at the time of
\* the request.
C20_FeedOnlyFollowedAuthors ==
    \A i \in 1..Len(feed.entries) :
        \/ feed.entries[i].post.user = feed.viewer
        \/ feed.entries[i].post.user \in feed.user.following

\* C20 (what the code does): a feed response holds the posts of every
\* author; following an author adds 100 to the score of their posts and
\* removes nothing from the response.
C20_FeedHoldsEveryAuthor ==
    FeedServed =>
        /\ {feed.entries[i].post.user : i \in 1..Len(feed.entries)}
              = {posts[p].user : p \in DOMAIN posts}
        /\ \A i \in 1..Len(feed.entries) :
              LET e == feed.entries[i]
                  mine == e.post.user = feed.viewer \/ e.post.user \in feed.user.following
              IN  e.relevanceScore - scorePost(e.post, "", [feed.user EXCEPT !.following = {}], feed.at)
                      = IF mine THEN FollowBonus * RecencyWindow ELSE 0

\* the viewer follows nobody and the response holds a post by another user
C20_Witness ==
    /\ FeedServed
    /\ feed.user.following = {}
    /\ \E i \in 1..Len(feed.entries) : feed.entries[i].post.user # feed.viewer

---------------------------------------------------------------------------
(* Properties of the aggregator's errors *)

\* analysis a has returned for a post id that is not in the collection, with
\* both credentials set
ReturnedNotFound(a) ==
    /\ an[a].pc = "done"
    /\ ConfigPresent
    /\ an[a].post \notin DOMAIN posts

\* C19 (as claimed): with the credentials set, Analyze on a post id that does
\* not exist answers an error the caller can tell apart from the one for a
\* missing credential, issues no provider call and writes no record.
C19_NotFoundDistinguishable ==
    \A a \in AnalysisSlots :
        ReturnedNotFound(a) =>
            /\ an[a].result.kind = "error"
            /\ AnalyzeResponse(an[a].result) # AnalyzeResponse(ErrorResult("config"))
            /\ an[a].calls = PendingCalls
            /\ an[a].writes = 0

\* C19 (what the code does): Analyze on a post id that does not exist issues
\* no provider call and writes no record, and answers the same 500 message
\* as for a missing credential or a failed save.
C19_NotFoundSameAnswer ==
    \A a \in AnalysisSlots :
        ReturnedNotFound(a) =>
            /\ an[a].result = ErrorResult("notfound")
            /\ AnalyzeResponse(an[a].result) = AnalyzeResponse(ErrorResult("config"))
            /\ AnalyzeResponse(an[a].result) = AnalyzeResponse(ErrorResult("save"))
            /\ AnalyzeResponse(an[a].result).status = 500
            /\ an[a].calls = PendingCalls
            /\ an[a].writes = 0
            /\ posts = UnanalyzedPosts \/ started > 1

\* Analyze has returned for a post id that does not exist
C19_Witness ==
    \E a \in AnalysisSlots :
        /\ ReturnedNotFound(a)
        /\ an[a].result.kind = "error"
        /\ started = 1

---------------------------------------------------------------------------
(* Progress *)

---------------------------------------------------------------------------
(* Who writes a preference profile *)

\* the likedCategories and likedTopics of a user document
Profile(doc) == <<doc.likedCategories, doc.likedTopics>>

\* request h is the like toggle of user u at its user.save()
OwnLikeSaves(h, u) ==
    /\ lk[h].pc = "saveUser"
    /\ lk[h].user = u
    /\ lk'[h].pc \in {"notify", "savePost"}

\* C16: a user's likedCategories and likedTopics change only in a step that
\* is the user.save() of a like toggle issued by that same user; like toggles
\* of other users (also on this user's posts), post analysis, post creation
\* and deletion, feed requests, follow and unfollow and bot posts leave them
\* as they are.
C16_ProfileWrittenByOwnerOnly ==
    [][\A u \in UserIds :
          Profile(users'[u]) # Profile(users[u])
             => \E h \in LikeSlots : OwnLikeSaves(h, u)]_vars

\* u1 has saved a like of a post of u2 whose author has preferences of their
\* own, after an analysis of the post, and u1 follows somebody
C16_Witness ==
    \E h \in LikeSlots :
       /\ lk[h].pc = "notify"
       /\ lk[h].user = "u1"
       /\ lk[h].postDoc.user = "u2"
       /\ lk[h].postDoc.aiAnalysis.category # PlaceholderAnalysis.category
       /\ DOMAIN users["u1"].likedCategories # {}
       /\ DOMAIN users["u2"].likedCategories # {}
       /\ users["u1"].following # {}

---------------------------------------------------------------------------
(* The not-found answers of the like toggle *)

\* request h is at its checks with the post or the user missing
LikeNotFound(h) ==
    /\ lk[h].pc = "findUser"
    /\ \/ ~lk[h].found
       \/ lk[h].user \notin DOMAIN users

\* C18: a like toggle that names a post that does not exist, or is issued
\* for a user that does not exist, answers "Post not found." or "User not
\* found." and none of its steps changes a post, a user or a notification.
C18_NotFoundChangesNothing ==
    [][\A h \in LikeSlots :
          /\ (lk[h].pc = "idle" /\ lk'[h].pc = "findUser")
                => /\ lk'[h].found = (lk'[h].post \in DOMAIN posts)
                   /\ posts' = posts /\ users' = users /\ notes' = notes
          /\ (LikeNotFound(h) /\ lk'[h] # lk[h])
                => /\ lk'[h].pc = "idle"
                   /\ lk'[h].resp = IF lk[h].found THEN "User not found."
                                    ELSE "Post not found."
                   /\ posts' = posts /\ users' = users /\ notes' = notes]_vars

\* the toggle of the removed account for a post that exists was answered
\* "User not found.", with a post, a like and a notification in the store
C18_Witness ==
    \E h \in LikeSlots :
       /\ lk[h].pc = "idle"
       /\ lk[h].resp = "User not found."
       /\ \E p \in DOMAIN posts : posts[p].likes # <<>>
       /\ notes # {}

---------------------------------------------------------------------------
(* What an analysis writes *)

\* a post document without its analysis record
Rest(doc) ==
    [user |-> doc.user, likes |-> doc.likes, createdAt |-> doc.createdAt, v |-> doc.v]

\* the step is the continuation of analysis a after Promise.allSettled
Finishes(a) == an[a].pc = "waiting" /\ an'[a].pc = "done"

\* the record analysis a leaves in its post is decided by its own four
\* outcomes: the merged record when it is stored, the record before otherwise
OwnOutcomeDecides(a) ==
    LET p == an[a].post
        stored == /\ ~NormalizerThrows(an[a].calls)
                  /\ SchemaAccepts(MergeAnalysis(an[a].calls))
    IN  /\ (an'[a].result.kind = "ok") = stored
        /\ posts'[p].aiAnalysis = IF stored THEN MergeAnalysis(an[a].calls)
                                  ELSE posts[p].aiAnalysis

\* C21: an analysis of post p changes nothing but p's analysis record: p's
\* like-set and author, every other post, every user's preferences and
\* follow set, the notifications and the other analysis in flight stay as
\* they are, and the record it leaves depends on its own outcomes only; so
\* two analyses of different posts reach the same state in every
\* interleaving, each finished analysis holding in its post the record it
\* returned.
C21_AnalyzeWritesOwnRecordOnly ==
    /\ [](\A a \in PairSlots :
            (an[a].pc = "done" /\ an[a].result.kind = "ok")
               => posts[an[a].post].aiAnalysis = an[a].result.record)
    /\ [][/\ users' = users
          /\ notes' = notes
          /\ DOMAIN posts' = DOMAIN posts
          /\ \A p \in DOMAIN posts : Rest(posts'[p]) = Rest(posts[p])
          /\ \A a \in PairSlots :
                IF Finishes(a)
                THEN /\ OwnOutcomeDecides(a)
                     /\ \A p \in (DOMAIN posts) \ {an[a].post} : posts'[p] = posts[p]
                     /\ \A b \in PairSlots \ {a} : an'[b] = an[b]
                ELSE an'[a] # an[a] => posts' = posts]_vars

\* the first analysis has stored its record while the second one, started
\* as well, still waits with calls settled; the like, the profile and the
\* follow set are the ones of the start
C21_Witness ==
    /\ an["a1"].pc = "done"
    /\ an["a1"].result.kind = "ok"
    /\ posts[1].aiAnalysis.category = "Technology"
    /\ an["a2"].pc = "waiting"
    /\ an["a2"].calls.toxicity.status # "pending"
    /\ posts[2].aiAnalysis = PlaceholderAnalysis
    /\ posts[1].likes = <<"u2">>
    /\ users["u1"].following = {"u2"}
    /\ DOMAIN users["u2"].likedCategories = {"Uncategorized"}

---------------------------------------------------------------------------
(* Two like toggles of one user racing on the profile *)

\* the step is the user.save() of request h
SavesUser(h) == lk[h].pc = "saveUser" /\ lk'[h].pc # "saveUser"

\* the count of key k in the Map m after the save is the loaded count moved
\* by one: up for a like, down for an unlike that loaded a positive count
CountOfLoad(f, loaded, m, k) ==
    IF ~f.isLiked
    THEN k \in DOMAIN m /\ m[k] = MapGetOr0(loaded, k) + 1
    ELSE MapGetOr0(loaded, k) > 0 => (k \in DOMAIN m /\ m[k] = MapGetOr0(loaded, k) - 1)

\* C22: likePost takes no lock on the profile.  Its user.save() stores, for
\* the category and for each topic of the post, the count it computed from
\* the profile it loaded, whatever another request has stored since; so when
\* two toggles of one user for two posts of one category both load before
\* either saves, one update is lost and the stored count differs from the
\* number of liked posts.
C22_SaveStoresCountOfLoad ==
    [][\A h \in RaceSlots :
          SavesUser(h) =>
             LET f == lk[h]
                 a == f.postDoc.aiAnalysis
             IN  /\ CountOfLoad(f, f.userDoc.likedCategories,
                                users'[f.user].likedCategories, a.category)
                 /\ \A i \in 1..Len(a.topics) :
                       CountOfLoad(f, f.userDoc.likedTopics,
                                   users'[f.user].likedTopics, a.topics[i])]_vars

\* both requests are over, u1 is in the like-set of both posts, and the
\* count of their category is 1
C22_Witness ==
    /\ \A h \in RaceSlots : lk[h].pc = "idle"
    /\ \A p \in RacePosts : p \in DOMAIN posts /\ posts[p].likes = <<"u1">>
    /\ posts[1].aiAnalysis.category = posts[2].aiAnalysis.category
    /\ users["u1"].likedCategories[posts[1].aiAnalysis.category] = 1

---------------------------------------------------------------------------
(* Counters of a post whose record changes, or that is deleted, while liked *)

\* no likePost request and no analysis is in flight
AllQuiescent ==
    /\ \A h \in DOMAIN lk : lk[h].pc = "idle"
    /\ \A a \in DOMAIN an : an[a].pc # "waiting"

\* every positive count of u is the count of a category or topic that a post
\* u likes now has
NoStaleCount(u) ==
    /\ \A c \in DOMAIN users[u].likedCategories :
          users[u].likedCategories[c] > 0 => PostsOfCategory(u, c) # {}
    /\ \A t \in DOMAIN users[u].likedTopics :
          users[u].likedTopics[t] > 0 => PostsOfTopic(u, t) # {}

\* C23 (as claimed): also when the record of a liked post changes before the
\* unlike, or a liked post is deleted, no user keeps a positive count for a
\* category or topic that none of the posts they like now has.
C23_NoStaleCount == AllQuiescent => \A u \in UserIds : NoStaleCount(u)

\* C23 (as the code behaves): the unlike decrements the category and topics
\* the post holds when it is unliked; the count of any other category or
\* topic, the one counted at the like included, is stored as it was loaded.
C23_UnlikeDecrementsCurrentRecord ==
    [][\A h \in DOMAIN lk :
          (SavesUser(h) /\ lk[h].isLiked) =>
             LET f == lk[h]
                 a == f.postDoc.aiAnalysis
             IN  /\ \A c \in DOMAIN users[f.user].likedCategories :
                       c # a.category =>
                          /\ c \in DOMAIN users'[f.user].likedCategories
                          /\ users'[f.user].likedCategories[c]
                                = users[f.user].likedCategories[c]
                 /\ \A t \in DOMAIN users[f.user].likedTopics :
                       t \notin Range(a.topics) =>
                          /\ t \in DOMAIN users'[f.user].likedTopics
                          /\ users'[f.user].likedTopics[t]
                                = users[f.user].likedTopics[t]]_vars

\* u1 liked the post while it held the placeholder, the post was analysed,
\* u1 unliked it, and the count of 'Uncategorized' is still 1
C23_Witness ==
    /\ AllQuiescent
    /\ LikedBy("u1") = {}
    /\ \E p \in DOMAIN posts : posts[p].aiAnalysis.category = "Technology"
    /\ \E h \in DOMAIN lk : lk[h].resp = "Post unliked."
    /\ MapGetOr0(users["u1"].likedCategories, "Uncategorized") = 1

---------------------------------------------------------------------------
(* The two saves of a like toggle *)

\* the step is the post.save() of request h, which ends the request
SavesPost(h) == lk[h].pc = "savePost" /\ lk'[h].pc = "idle"

\* after the step the stored like-set of the request's post holds the user
\* exactly if the request was a like
ToggleStored(f) ==
    /\ f.post \in DOMAIN posts'
    /\ Includes(posts'[f.post].likes, f.user) = ~f.isLiked

\* C24 (as claimed): a toggle that has written the profile and answered
\* 'Post liked.' or 'Post unliked.' has its like-set change stored when it
\* ends, also when the save of the post fails.
C24_AnsweredToggleIsStored ==
    [][\A h \in DOMAIN lk :
          (SavesPost(h) /\ lk'[h].resp \in {"Post liked.", "Post unliked."})
             => ToggleStored(lk[h])]_vars

\* C24 (as the code behaves): the like-set change is stored when the save
\* finds the document, that is when the post has not been deleted and, for
\* an unlike, no other save has changed its arrays since the load; otherwise
\* the post is left as it is, the profile and the answer as they were written
C24_StoredWhenSaveFinds ==
    [][\A h \in DOMAIN lk :
          SavesPost(h) =>
             /\ lk'[h].resp = IF lk[h].isLiked THEN "Post unliked." ELSE "Post liked."
             /\ users' = users
             /\ IF SaveFinds(posts, lk[h]) THEN ToggleStored(lk[h])
                ELSE posts' = posts]_vars

\* u1's unlike loaded the post before u2's like was stored: it was answered
\* 'Post unliked.', u1's count went back to 0, and u1 is still in the like-set
C24_Witness ==
    /\ AllQuiescent
    /\ \E h \in DOMAIN lk : lk[h].resp = "Post unliked."
    /\ \E p \in DOMAIN posts : posts[p].likes = <<"u1", "u2">>
    /\ MapGetOr0(users["u1"].likedCategories, "Technology") = 0
    /\ MapGetOr0(users["u2"].likedCategories, "Technology") = 1

---------------------------------------------------------------------------
(* A user's places in a like-set *)

\* C25 (as claimed): a user's id occurs at most once in the like-set of any
\* post, also when two toggles of that user for the post interleave.
C25_LikedAtMostOnce ==
    \A p \in DOMAIN posts : \A u \in UserIds : Occurrences(posts[p].likes, u) <= 1

\* C25 (as the code behaves): the save of a like appends the user to the
\* stored like-set whatever it holds; the user gets a second place exactly
\* when another save has changed the like-set since this request loaded it.
C25_SecondPlaceOnlyAfterOverlap ==
    [][\A h \in DOMAIN lk :
          (SavesPost(h) /\ ~lk[h].isLiked /\ SaveFinds(posts, lk[h])) =>
             LET f == lk[h]
             IN  /\ posts'[f.post].likes = Append(posts[f.post].likes, f.user)
                 /\ Occurrences(posts'[f.post].likes, f.user) > 1
                       => posts[f.post].v # f.postDoc.v]_vars

\* two likes of u1 for one post overlapped and a later unlike removed both
\* places: u1 likes no post and the category still counts 1
C25_Witness ==
    /\ AllQuiescent
    /\ toggled = 3
    /\ LikedBy("u1") = {}
    /\ \E p \in DOMAIN posts : posts[p].v = 3 /\ posts[p].likes = <<>>
    /\ MapGetOr0(users["u1"].likedCategories, "Technology") = 1

---------------------------------------------------------------------------
(* The sentiment normalizer on a failed call and on a malformed answer *)

\* the sentiment call answered something that is not [[item, ...]]
MalformedSentiment(a) ==
    /\ an[a].calls.sentiment.status = "fulfilled"
    /\ ~IsNestedArray(an[a].calls.sentiment.value)

\* analysis a has stored its record, toxicity not detected
StoredNotToxic(a) ==
    /\ Returned(a)
    /\ an[a].result.kind = "ok"
    /\ ~an[a].result.record.toxicity.detected

\* C26 (as claimed): the sentiment is 'Error' when the sentiment call failed
\* and when it answered a malformed payload; with toxicity not detected that
\* is the sentiment stored.
C26_MalformedSentimentIsError ==
    \A a \in AnalysisSlots :
       (StoredNotToxic(a) /\ (Failed(a, "sentiment") \/ MalformedSentiment(a)))
          => /\ NormalizeSentiment(an[a].calls.sentiment) = "Error"
             /\ posts[an[a].post].aiAnalysis.sentiment = "Error"

\* C26 (as the code behaves): a failed call gives 'Error', a malformed answer
\* gives 'Unknown'; with toxicity not detected that is the sentiment stored.
C26_MalformedSentimentIsUnknown ==
    \A a \in AnalysisSlots :
       StoredNotToxic(a) =>
          /\ Failed(a, "sentiment") => posts[an[a].post].aiAnalysis.sentiment = "Error"
          /\ MalformedSentiment(a) => posts[an[a].post].aiAnalysis.sentiment = "Unknown"

\* the sentiment call answered a JSON object, the record was stored with
\* sentiment 'Unknown'
C26_Witness ==
    \E a \in AnalysisSlots :
       /\ StoredNotToxic(a)
       /\ an[a].calls.sentiment = Fulfilled(JsonObject)
       /\ posts[an[a].post].aiAnalysis.sentiment = "Unknown"

---------------------------------------------------------------------------
(* The toxicity normalizer *)

\* label.toLowerCase().replace(/_/g, ' ')
CleanLabel(label) == ReplaceUnderscores(ToLowerCase(label))

\* the clean labels of the entries whose score is at least the threshold
LabelsAtThreshold(items) ==
    {CleanLabel(items[i].label) :
        i \in {j \in 1..Len(items) : items[j].score >= ToxicityThreshold}}

\* the toxicity call of analysis a answered a list of entries
ListPayload(a) ==
    /\ an[a].calls.toxicity.status = "fulfilled"
    /\ an[a].calls.toxicity.value.k \in {"nested", "flat"}

\* the stored toxicity lists exactly the labels at the threshold and is
\* detected exactly if 'offensive' is one of them
ExactToxicity(a) ==
    LET items == an[a].calls.toxicity.value.items
        t == posts[an[a].post].aiAnalysis.toxicity
    IN  /\ t.details.error = ""
        /\ DOMAIN t.details.scores = LabelsAtThreshold(items)
        /\ t.detected = ("offensive" \in LabelsAtThreshold(items))

\* C27 (as claimed): for every toxicity payload that is a list of
\* label/score entries the stored details hold exactly the clean labels
\* whose score is at least 0.5, and detected is true exactly if 'offensive'
\* is one of them; a failed call gives detected = false.
C27_ToxicityOfEveryList ==
    \A a \in AnalysisSlots :
       (Returned(a) /\ an[a].result.kind = "ok") =>
          /\ ListPayload(a) => ExactToxicity(a)
          /\ Failed(a, "toxicity") => ~posts[an[a].post].aiAnalysis.toxicity.detected

\* C27 (as the code behaves): that holds for the shape [[entry, ...]] and for
\* the empty list; for a list [entry, ...] that is not empty, scores[0] is
\* its first entry, not an array, and the result is detected = false with
\* the error 'Unexpected response format for categories'.
C27_ToxicityOfNestedList ==
    \A a \in AnalysisSlots :
       (Returned(a) /\ an[a].result.kind = "ok") =>
          LET v == an[a].calls.toxicity.value
              t == posts[an[a].post].aiAnalysis.toxicity
          IN  /\ (ListPayload(a) /\ (v.k = "nested" \/ v.items = <<>>))
                    => ExactToxicity(a)
              /\ (ListPayload(a) /\ v.k = "flat" /\ v.items # <<>>)
                    => /\ ~t.detected
                       /\ t.details.error = "Unexpected response format for categories"
                       /\ t.details.scores = EmptyMap
              /\ Failed(a, "toxicity") => ~t.detected

\* the toxicity call answered [{OFFENSIVE, 0.9}]: stored as not detected
C27_Witness ==
    \E a \in AnalysisSlots :
       /\ Returned(a)
       /\ an[a].result.kind = "ok"
       /\ an[a].calls.toxicity = Fulfilled(Flat(<<Item("OFFENSIVE", 900)>>))
       /\ ~posts[an[a].post].aiAnalysis.toxicity.detected
       /\ posts[an[a].post].aiAnalysis.sentiment = "Neutral"

---------------------------------------------------------------------------
(* The calls of one analysis *)

\* the step starts an invocation of performAIAnalysisOnPost in slot a
Starts(a) == an[a].pc # "waiting" /\ an'[a] # an[a]

\* C28: an invocation that passes the credential checks and finds its post
\* issues its four calls (sentiment, emotion, toxicity, structured) in one
\* step, before any outcome is known, and an invocation that does not pass
\* issues none; a call that has settled, rejected or fulfilled, keeps its
\* outcome until the invocation ends, which it does only when all four have
\* settled: no call is issued a second time.
C28_FourCallsIssuedOnce ==
    /\ [](\A a \in AnalysisSlots : DOMAIN an[a].calls = Providers)
    /\ [][\A a \in AnalysisSlots :
             /\ Starts(a) =>
                   /\ an'[a].calls = PendingCalls
                   /\ (an'[a].pc = "waiting")
                         = (ConfigPresent /\ an'[a].post \in DOMAIN posts)
                   /\ an'[a].pc \in {"waiting", "done"}
             /\ an[a].pc = "waiting" =>
                   /\ \A k \in Providers :
                         an[a].calls[k].status # "pending"
                            => an'[a].calls[k] = an[a].calls[k]
                   /\ Cardinality({k \in Providers :
                                      an'[a].calls[k] # an[a].calls[k]}) <= 1
                   /\ Finishes(a) => AllSettled(an[a].calls)]_vars

\* an invocation has ended with its record stored although the sentiment
\* call was rejected; the three other calls were fulfilled
C28_Witness ==
    \E a \in AnalysisSlots :
       /\ Returned(a)
       /\ an[a].result.kind = "ok"
       /\ an[a].calls.sentiment.status = "rejected"
       /\ \A k \in Providers \ {"sentiment"} : an[a].calls[k].status = "fulfilled"
       /\ posts[an[a].post].aiAnalysis.sentiment = "Error"

---------------------------------------------------------------------------
(* The clock of a feed request *)

\* the author-affinity, category, topic and toxicity terms of a post's score
OtherTerms(post, viewer, user) ==
    LET a == post.aiAnalysis
    IN  <<post.user \in user.following \/ post.user = viewer,
          IF TruthyString(a.category) /\ MapHas(user.likedCategories, a.category)
          THEN user.likedCategories[a.category] ELSE 0,
          TopicScore(user.likedTopics, a.topics),
          a.toxicity.detected>>

\* entries i and j of the response agree on those terms
AgreeOnOtherTerms(i, j) ==
    OtherTerms(feed.entries[i].post, feed.viewer, feed.user)
        = OtherTerms(feed.entries[j].post, feed.viewer, feed.user)

\* C29 (as claimed): two posts of one response that agree on the
\* author-affinity, category, topic and toxicity terms are returned newest
\* first, however much time passes between scoring one and the other.
C29_NewestFirstAmongEqual ==
    \A i, j \in 1..Len(feed.entries) :
       (i < j /\ AgreeOnOtherTerms(i, j))
          => feed.entries[i].post.createdAt >= feed.entries[j].post.createdAt

\* C29 (as the code behaves): each post is scored at its own reading of the
\* clock, so two such posts come in the order of their recency terms at
\* those readings, the newer first only when the terms are equal; they are
\* returned newest first when both were scored at the same reading.
C29_OrderedByRecencyAtOwnRead ==
    \A i, j \in 1..Len(feed.entries) :
       (i < j /\ AgreeOnOtherTerms(i, j)) =>
          LET ei == feed.entries[i]
              ej == feed.entries[j]
              ri == RecencyScore(ei.post, ei.readAt)
              rj == RecencyScore(ej.post, ej.readAt)
          IN  /\ ei.relevanceScore
                    = scorePost(ei.post, feed.viewer, feed.user, ei.readAt)
              /\ ri >= rj
              /\ ri = rj => ei.post.createdAt >= ej.post.createdAt
              /\ ei.readAt = ej.readAt => ei.post.createdAt >= ej.post.createdAt

\* the older of two posts that agree on the other terms is returned first:
\* it was scored before the clock moved on
C29_Witness ==
    \E i, j \in 1..Len(feed.entries) :
       /\ i < j
       /\ AgreeOnOtherTerms(i, j)
       /\ feed.entries[i].post.createdAt < feed.entries[j].post.createdAt
       /\ feed.entries[i].readAt < feed.entries[j].readAt
       /\ feed.entries[i].relevanceScore > feed.entries[j].relevanceScore

---------------------------------------------------------------------------
(* Scores after a like and its unlike *)

\* the clock readings the scores are compared at
ScoreTimes == 0..(RecencyMax * RecencyWindow + 1)

\* C30: after a like by a viewer and the unlike of the same post that follows
\* it, the relevance score of every post for that viewer, at any fixed
\* reading of the clock, is the score computed from the preferences before
\* the like, also when the like left a key that now holds the count 0.
C30_RoundTripKeepsScores ==
    \A u \in UserIds :
       hist[u].phase = "roundtrip" =>
          \A p \in DOMAIN posts : \A t \in ScoreTimes :
             scorePost(posts[p], u, users[u], t)
                = scorePost(posts[p], u, hist[u].base, t)

\* u1 likes one post, has liked and unliked another one, and the round trip
\* left a category and a topic of that post with the count 0
C30_Witness ==
    /\ hist["u1"].phase = "roundtrip"
    /\ LikesQuiescent
    /\ LikedBy("u1") # {}
    /\ hist["u1"].post \notin LikedBy("u1")
    /\ \E c \in DOMAIN users["u1"].likedCategories :
          /\ users["u1"].likedCategories[c] = 0
          /\ c \notin DOMAIN hist["u1"].base.likedCategories
          /\ posts[hist["u1"].post].aiAnalysis.category = c
    /\ \E t \in DOMAIN users["u1"].likedTopics :
          /\ users["u1"].likedTopics[t] = 0
          /\ t \in Range(posts[hist["u1"].post].aiAnalysis.topics)
    /\ \E t \in DOMAIN users["u1"].likedTopics : users["u1"].likedTopics[t] > 0

====
